---- MODULE Spec2Model ----
(***************************************************************************)
(* Model of the gym tracker's planner page (frontend/pages/index.tsx):     *)
(* streak tracking, milestone celebration, progressive-overload (PO)       *)
(* targets, set feedback and the per-set weight suggestion.                *)
(*                                                                         *)
(* Units.  Weights and PO targets are JavaScript numbers in the source.    *)
(* Here they are exact decimals counted in thousandths of a kilogram       *)
(* (1 kg = 1000), so 0.25 kg/week is 250 and Math.round is computed as     *)
(* floor(x + 1/2) on exact fractions.  Binary floating-point error is not  *)
(* modelled.                                                               *)
(* Dates.  A calendar date is a day number; day 0 is a Monday.  The source *)
(* keys its calendars by the UTC date string and reads the weekday in      *)
(* local time; the model takes both from the same clock.                   *)
(* React.  An event handler and the effects its state changes trigger are  *)
(* one action: React flushes pending effects before the next event.        *)
(***************************************************************************)
EXTENDS Integers, Sequences, FiniteSets, TLC

\* ------------------------------------------------------------------ bounds
\* last calendar day the clock may reach (day 10 is the 7th training day)
MaxDay == 10
\* last calendar day where skipping and day cards are explored as well
MaxSkipDay == 4
\* how many dates the user may mark as skipped
MaxSkips == 1
\* how many sessions the user may log on Rest days (the streak walk never
\* looks a Rest date up in the calendar)
MaxRestLogs == 0

\* --------------------------------------------------------------- constants
\* absent number: a missing localStorage item, a null state value
Null == -1

dayTypes == <<"Chest", "Legs", "Rest", "Back", "Shoulders & Arms", "Rest", "Rest">>

exerciseGroups ==
  [ Chest |-> << "Incline Dumbbell Press", "Smith Machine Press",
                 "Pec Deck / Machine Fly", "Cable Fly (Low-to-High)",
                 "Lateral Raises", "Shoulder Press" >>,
    Back  |-> << "Romanian Deadlift", "Bent-over Row", "Lat Pulldown",
                 "Seated Cable Row" >>,
    Legs  |-> << "Leg Extension", "Smith Machine Squat", "Romanian Deadlift",
                 "Smith Machine Lunges", "Seated Leg Curl",
                 "Standing Calf Raise" >>,
    ShouldersArms |-> << "Overhead Press", "Lateral Raises", "Front Raises",
                 "Rear Delt Fly", "Barbell Curl", "Dumbbell Hammer Curl",
                 "Triceps Pushdown", "Overhead Triceps Extension" >> ]

\* exerciseGroups[day], with [] for a day that has no group ('Rest')
groupOf(day) ==
  CASE day = "Chest" -> exerciseGroups.Chest
    [] day = "Back" -> exerciseGroups.Back
    [] day = "Legs" -> exerciseGroups.Legs
    [] day = "Shoulders & Arms" -> exerciseGroups.ShouldersArms
    [] OTHER -> << >>

Range(s) == { s[i] : i \in DOMAIN s }

\* every exercise of the catalogue (Object.values(exerciseGroups) flattened)
Exercises ==
  Range(exerciseGroups.Chest) \cup Range(exerciseGroups.Back)
    \cup Range(exerciseGroups.Legs) \cup Range(exerciseGroups.ShouldersArms)

milestones == {3, 7, 14, 30}

\* the streak walk looks at the last 365 days
WalkDays == 365

Max(a, b) == IF a >= b THEN a ELSE b
Min(a, b) == IF a <= b THEN a ELSE b

\* ------------------------------------------------------------------- state
VARIABLES
  today,              \* the clock: new Date() as a day number
  finishedSessions,   \* set of dates d with finishedSessions[d] = true
  skippedSessions,    \* set of dates d with skippedSessions[d] = true
  streakCurrent,
  streakBest,
  celebrateMilestone, \* milestone on display, or Null
  selectedDay,
  selectedDateStr,
  sessionActive,
  sessionFinished,
  submitting,         \* a finishSession call is awaiting its POST
  finishClosure,      \* finishedSessions as captured by that call
  localStorage,       \* the persisted items
  celebrated,         \* history: how often each milestone was celebrated,
                      \*   in total and since the last planner reset
  streakAsOf,         \* history: the date the streak effect last ran on
  userProfile,        \* profile loaded from the backend, or not loaded
  poTargets,          \* exercise -> kg/week, in thousandths
  rows,               \* the exercise rows of the selected day
  recs,               \* exercise -> recommendation payload
  probe,              \* one call of a pure function: arguments and result
  inFlight,           \* body of the session POST that awaits its response
  shown,              \* history: <<exercise, set number>> -> the suggestion
                      \*   on screen when the user last typed into that set
  emptyAlert,         \* history: the last finishSession call found no
                      \*   complete set and ended at its alert
  feedbackWrote,      \* history: whether the last handleSetFeedback call
                      \*   wrote the poTargets item ("yes", "no"; "" if none)
  instrument,         \* the instrumentation calls in progress and the
                      \*   events the backend has received
  otherTab,           \* the page open in a second tab on the same storage
  api                 \* the signed-in user's access token, the requests
                      \*   the browser has sent to /api routes and the
                      \*   requests that reached the backend

streakVars ==
  << today, finishedSessions, skippedSessions, streakCurrent, streakBest,
     celebrateMilestone, selectedDay, selectedDateStr, sessionActive,
     sessionFinished, submitting, finishClosure, celebrated, streakAsOf >>

poVars == << userProfile, poTargets, rows, recs >>

finishVars == << inFlight, shown >>

historyVars == << emptyAlert, feedbackWrote >>

sideVars == << instrument, otherTab, api >>

vars == << streakVars, localStorage, poVars, probe, finishVars, historyVars,
           sideVars >>

\* ------------------------------------------------------------ the calendar
\* (dd.getDay() + 6) % 7 for the date d: Monday = 0.  Dates before day 0 are
\* shifted by a whole number of weeks to keep the dividend positive.
dayIndex(d) == (d + 7 * 53) % 7

dayTypeOf(d) == dayTypes[dayIndex(d) + 1]

\* getWeekDates: the seven dates of the Monday-start week that holds today
getWeekDates(now) == { (now - dayIndex(now)) + i : i \in 0..6 }

\* Variant of the loop in which a Rest day is looked up like any other day
\* and so ends the walk.
RECURSIVE streakWalkRestBreaks(_, _, _, _)
streakWalkRestBreaks(finished, now, d, count) ==
  IF d >= WalkDays THEN count
  ELSE LET dd == now - d IN
       IF dd \in finished
         THEN streakWalkRestBreaks(finished, now, d + 1,
                IF dayTypeOf(dd) = "Rest" THEN count ELSE count + 1)
       ELSE count

\* Variant of the loop in which an unfinished training day is passed over
\* when a session was finished in the six days before it.
RECURSIVE streakWalkNoBreak(_, _, _, _)
streakWalkNoBreak(finished, now, d, count) ==
  IF d >= WalkDays THEN count
  ELSE LET dd == now - d IN
       IF dayTypeOf(dd) = "Rest" THEN streakWalkNoBreak(finished, now, d + 1, count)
       ELSE IF dd \in finished
         THEN streakWalkNoBreak(finished, now, d + 1, count + 1)
       ELSE IF \E e \in (dd - 6)..(dd - 1) : e \in finished
         THEN streakWalkNoBreak(finished, now, d + 1, count)
       ELSE count

\* The loop of the streak effect: d = 0 .. 364, date = today - d.
RECURSIVE streakWalk(_, _, _, _)
streakWalk(finished, now, d, count) ==
  IF d >= WalkDays THEN count
  ELSE LET dd == now - d IN
       IF dayTypeOf(dd) = "Rest" THEN streakWalk(finished, now, d + 1, count)
       ELSE IF dd \in finished THEN streakWalk(finished, now, d + 1, count + 1)
       ELSE count

streakCount(finished, now) == streakWalk(finished, now, 0, 0)

\* Variant of the streak effect that leaves the best streak as it was read.
streakEffectNoRaise(finished, now, ls) ==
  LET count == streakCount(finished, now)
      prevBest == IF ls.bestStreak # Null THEN ls.bestStreak ELSE 0
  IN << count, prevBest, ls >>

\* Variant of the streak effect that stores the count as the best streak
\* without comparing it to the stored one.
streakEffectOverwrite(finished, now, ls) ==
  LET count == streakCount(finished, now)
  IN << count, count, [ls EXCEPT !.bestStreak = count] >>

\* The streak effect (runs when finishedSessions changed): sets
\* streakCurrent, reads bestStreak from storage and raises it.
\* Result: <<streakCurrent, streakBest, localStorage>>.
streakEffect(finished, now, ls) ==
  LET count == streakCount(finished, now)
      prevBest == IF ls.bestStreak # Null THEN ls.bestStreak ELSE 0
  IN IF count > prevBest
       THEN << count, count, [ls EXCEPT !.bestStreak = count] >>
       ELSE << count, prevBest, ls >>

\* Variant of the milestone effect that does not compare with the watermark.
milestoneEffectNoWatermark(cur, ls) ==
  IF cur \in milestones
    THEN << TRUE, [ls EXCEPT !.lastCelebrated = cur] >>
    ELSE << FALSE, ls >>

\* The milestone effect (runs when streakCurrent changed) on the value cur.
\* Result: <<fired, localStorage>>.
milestoneEffect(cur, ls) ==
  LET last == IF ls.lastCelebrated # Null THEN ls.lastCelebrated ELSE 0
  IN IF cur \in milestones /\ cur > last
       THEN << TRUE, [ls EXCEPT !.lastCelebrated = cur] >>
       ELSE << FALSE, ls >>

\* ------------------------------------------------------- profile and seeds
NoProfile ==
  [ loaded |-> FALSE, sex |-> "male", age |-> 0, current_weight_kg |-> 0,
    height_cm |-> 0, ideal_weight_kg |-> 0 ]

\* getUserProfile().weightKg: a missing (falsy) weight reads as 70
profileWeightKg(up) ==
  IF up.loaded /\ up.current_weight_kg # 0 THEN up.current_weight_kg ELSE 70

\* calculateMaintenanceCalories(profile) on a stored profile (which has no
\* weightKg / heightCm fields): Mifflin-St Jeor, times 1.55, Math.round.
\* A missing field is 0 or "" and reads as its default.  bmr is held in
\* hundredths: bmr * 1.55 = bmr100 * 155 / 10000.
calculateMaintenanceCalories(profile) ==
  LET weight == IF profile.current_weight_kg # 0
                  THEN profile.current_weight_kg ELSE 70
      height == IF profile.height_cm # 0 THEN profile.height_cm ELSE 175
      age == IF profile.age # 0 THEN profile.age ELSE 25
      sex == IF profile.sex # "" THEN profile.sex ELSE "male"
      bmr100 == 1000 * weight + 625 * height - 500 * age
                  + (IF sex = "male" THEN 500 ELSE -16100)
  IN (2 * bmr100 * 155 + 10000) \div 20000

\* getUserProfile()
getUserProfile(up) ==
  IF up.loaded
    THEN [ sex |-> IF up.sex # "" THEN up.sex ELSE "male",
           age |-> IF up.age # 0 THEN up.age ELSE 25,
           weightKg |-> IF up.current_weight_kg # 0
                          THEN up.current_weight_kg ELSE 70,
           heightCm |-> IF up.height_cm # 0 THEN up.height_cm ELSE 175,
           maintenanceCalories |-> calculateMaintenanceCalories(up) ]
    ELSE [ sex |-> "male", age |-> 25, weightKg |-> 70, heightCm |-> 175,
           maintenanceCalories |-> 3000 ]

\* getIdealProfile(): the maintenance calories are computed on the stored
\* profile with current_weight_kg replaced by ideal_weight_kg
getIdealProfile(up) ==
  IF up.loaded
    THEN [ sex |-> IF up.sex # "" THEN up.sex ELSE "male",
           age |-> IF up.age # 0 THEN up.age ELSE 25,
           weightKg |-> IF up.ideal_weight_kg # 0
                          THEN up.ideal_weight_kg ELSE 85,
           heightCm |-> IF up.height_cm # 0 THEN up.height_cm ELSE 175,
           maintenanceCalories |-> calculateMaintenanceCalories(
               [ up EXCEPT !.current_weight_kg = up.ideal_weight_kg ]) ]
    ELSE [ sex |-> "male", age |-> 25, weightKg |-> 85, heightCm |-> 175,
           maintenanceCalories |-> 3400 ]

\* the multiplier table of computeInitialWeightForExercise, in hundredths
baselineFactor(ex) ==
  CASE ex = "Incline Dumbbell Press" -> 35
    [] ex = "Smith Machine Press" -> 60
    [] ex = "Pec Deck / Machine Fly" -> 25
    [] ex = "Cable Fly (Low-to-High)" -> 20
    [] ex = "Romanian Deadlift" -> 110
    [] ex = "Bent-over Row" -> 70
    [] ex = "Lat Pulldown" -> 60
    [] ex = "Seated Cable Row" -> 60
    [] ex = "Leg Extension" -> 45
    [] ex = "Smith Machine Squat" -> 120
    [] ex = "Smith Machine Lunges" -> 60
    [] ex = "Seated Leg Curl" -> 40
    [] ex = "Standing Calf Raise" -> 25
    [] ex = "Overhead Press" -> 45
    [] ex = "Lateral Raises" -> 8
    [] ex = "Front Raises" -> 8
    [] ex = "Rear Delt Fly" -> 12
    [] ex = "Barbell Curl" -> 18
    [] ex = "Dumbbell Hammer Curl" -> 12
    [] ex = "Triceps Pushdown" -> 12
    [] ex = "Overhead Triceps Extension" -> 12
    [] OTHER -> 25

\* Math.round(x * 2) / 2 for x = num / den kg (den > 0), in thousandths
roundToHalfOf(num, den) == ((4 * num + den) \div (2 * den)) * 500

\* roundToHalf(n) for n in thousandths of a kg
roundToHalf(n) == roundToHalfOf(n, 1000)

\* Variant of computeInitialWeightForExercise without the 2.5 kg minimum.
computeInitialWeightNoMin(ex, bw) ==
  roundToHalfOf(bw * baselineFactor(ex) * 108, 10000)

\* computeInitialWeightForExercise: raw = max(2.5, bw * factor * 1.08),
\* rounded to the nearest half kilogram.  raw is held in 1/10000 kg.
computeInitialWeightForExercise(ex, bw) ==
  LET raw == Max(25000, bw * baselineFactor(ex) * 108)
  IN roundToHalfOf(raw, 10000)

seedPoForExercise(ex) ==
  IF ex \in { "Incline Dumbbell Press", "Smith Machine Press",
              "Romanian Deadlift", "Bent-over Row", "Smith Machine Squat",
              "Overhead Press" }
    THEN 500 ELSE 250

defaultSetsForExercise(ex) ==
  IF ex \in { "Incline Dumbbell Press", "Smith Machine Press",
              "Romanian Deadlift", "Bent-over Row", "Lat Pulldown",
              "Seated Cable Row", "Smith Machine Squat",
              "Smith Machine Lunges", "Overhead Press" }
    THEN 4 ELSE 3

baselinePoTargets == [ ex \in Exercises |-> seedPoForExercise(ex) ]

\* ------------------------------------------------- recommendations and rows
\* the empty string '' in a weight or reps input
Blank == -999999

\* A recommendation payload; 0 stands for a missing (or zero) field.
NoRec ==
  [ recommended_weight |-> 0, recommended_reps |-> 0, ai_weight |-> 0,
    ai_reps |-> 0, recommended_sets |-> 0 ]

recOf(rc, ex) == IF ex \in DOMAIN rc THEN rc[ex] ELSE NoRec

\* computePoReps: ai reps, else rule reps, else 6
computePoReps(rc, ex) ==
  LET rec == recOf(rc, ex) IN
  IF rec.ai_reps # 0 THEN rec.ai_reps
  ELSE IF rec.recommended_reps # 0 THEN rec.recommended_reps
  ELSE 6

\* The base weight of computePoSuggestion: the AI weight, else the rule
\* weight (the first truthy one), used if it is > 0; else the seeded initial
\* weight for the current profile.
suggestionBase(rc, up, ex) ==
  LET rec == recOf(rc, ex)
      baseFromRec == IF rec.ai_weight # 0 THEN rec.ai_weight
                     ELSE rec.recommended_weight
  IN IF baseFromRec # 0 /\ baseFromRec > 0 THEN baseFromRec
     ELSE computeInitialWeightForExercise(ex, profileWeightKg(up))

\* Variant of the suggestion with a decay of 0.10 per set.
poSuggestionDecayTen(rc, up, ex, setNumber, setsCount, po) ==
  LET base == suggestionBase(rc, up, ex)
      n == Max(1, setsCount)
      bias == Max(0, 100 - (setNumber - 1) * 10)
  IN roundToHalfOf(base * 100 * n + po * bias, 100000 * n)

\* Variant of the suggestion whose bias grows by 0.15 per set.
poSuggestionGrowing(rc, up, ex, setNumber, setsCount, po) ==
  LET base == suggestionBase(rc, up, ex)
      n == Max(1, setsCount)
      bias == Max(0, 100 + (setNumber - 1) * 15)
  IN roundToHalfOf(base * 100 * n + po * bias, 100000 * n)

\* computePoSuggestion with the PO target po already resolved
\* ((overridePoTarget ?? poTargets[exercise]) ?? 0):
\*   perSet = po / max(1, setsCount); bias = max(0, 1 - (setNumber-1)*0.15)
\*   roundToHalf(base + perSet * bias)
\* base is in thousandths and bias in hundredths, so the sum is the fraction
\* (base * 100 * n + po * bias) / (100000 * n) of a kilogram.
poSuggestionFor(rc, up, ex, setNumber, setsCount, po) ==
  LET base == suggestionBase(rc, up, ex)
      n == Max(1, setsCount)
      bias == Max(0, 100 - (setNumber - 1) * 15)
  IN roundToHalfOf(base * 100 * n + po * bias, 100000 * n)

\* poTargets[exercise] ?? 0
storedPoOrZero(pt, ex) == IF ex \in DOMAIN pt THEN pt[ex] ELSE 0

\* computePoSuggestion(exercise, setNumber, setsCount) without override
computePoSuggestion(rc, up, pt, ex, setNumber, setsCount) ==
  poSuggestionFor(rc, up, ex, setNumber, setsCount, storedPoOrZero(pt, ex))

\* Variant of adjustPoTarget without the clamp at 0.
adjustPoTargetNoClamp(pt, ex, delta) ==
  LET current == IF ex \in DOMAIN pt THEN pt[ex] ELSE seedPoForExercise(ex)
      nextVal == ((current + delta + 5) \div 10) * 10
  IN IF delta # 0
       THEN << nextVal, [ e \in DOMAIN pt \cup {ex} |->
                            IF e = ex THEN nextVal ELSE pt[e] ] >>
       ELSE << current, pt >>

\* Math.round(x * 100) / 100 for x in thousandths
roundToCents(x) == ((x + 5) \div 10) * 10

\* adjustPoTarget(exercise, delta): <<returned value, next poTargets>>.
\* With delta = 0 nothing is written and the current value is returned.
adjustPoTarget(pt, ex, delta) ==
  LET current == IF ex \in DOMAIN pt THEN pt[ex] ELSE seedPoForExercise(ex)
      nextVal == Max(0, roundToCents(current + delta))
  IN IF delta # 0
       THEN << nextVal, [ e \in DOMAIN pt \cup {ex} |->
                            IF e = ex THEN nextVal ELSE pt[e] ] >>
       ELSE << current, pt >>

feedbackDelta(fb) ==
  CASE fb = "too_easy" -> 250
    [] fb = "too_hard" -> -250
    [] OTHER -> 0

\* Variant of the target handleSetFeedback computes the weight with: the
\* stored target as it was before the adjustment.
nextTargetStale(pt, ex, fb) == storedPoOrZero(pt, ex)

\* The target handleSetFeedback computes the set's weight with:
\* overrideTarget = adjustPoTarget(exercise, delta), the returned value.
nextTargetFor(pt, ex, fb) == adjustPoTarget(pt, ex, feedbackDelta(fb))[1]

\* buildRowsForDay(day, profile): default set count, seeded weights that
\* drop 8% per set (never below 2.5 kg), reps from computePoReps.
buildRowsForDay(day, up, rc) ==
  LET group == groupOf(day) IN
  IF day = "Rest" \/ Len(group) = 0 THEN << >>
  ELSE [ r \in 1..Len(group) |->
         LET ex == group[r]
             count == defaultSetsForExercise(ex)
             base == computeInitialWeightForExercise(ex, profileWeightKg(up))
         IN [ exercise |-> ex,
              setsCount |-> count,
              sets |-> [ i \in 1..count |->
                 [ set_number |-> i,
                   weight |-> Max(2500,
                       roundToHalfOf(base * (100 - (i - 1) * 8), 100000)),
                   reps |-> computePoReps(rc, ex),
                   feedback |-> "on_target" ] ] ] ]

\* the rows after a finished session: inputs blanked, feedback reset
clearedRows(rs) ==
  [ r \in DOMAIN rs |->
      [ rs[r] EXCEPT !.sets = [ i \in DOMAIN rs[r].sets |->
          [ rs[r].sets[i] EXCEPT !.weight = Blank, !.reps = Blank,
                                 !.feedback = "on_target" ] ] ] ]

\* finishSession keeps the sets that have both a weight and reps
hasEnrichedSets(rs) ==
  { r \in DOMAIN rs :
      { i \in DOMAIN rs[r].sets :
          rs[r].sets[i].weight # Blank /\ rs[r].sets[i].reps # Blank } # {} }
    # {}

\* feedbackToIntensity
feedbackToIntensity(fb) ==
  CASE fb = "too_easy" -> 6
    [] fb = "too_hard" -> 9
    [] OTHER -> 7

\* rows.flatMap(r => r.sets.map(...)) of finishSession, from row r on: one
\* entry per set, with the suggestion and reps computed at that moment
RECURSIVE sessionSets(_, _, _, _, _)
sessionSets(rs, rc, up, pt, r) ==
  IF r > Len(rs) THEN << >>
  ELSE [ i \in 1..Len(rs[r].sets) |->
         LET s == rs[r].sets[i] IN
         [ exercise |-> rs[r].exercise,
           set_number |-> s.set_number,
           weight |-> s.weight,
           reps |-> s.reps,
           intensity |-> feedbackToIntensity(s.feedback),
           rec_weight |-> computePoSuggestion(rc, up, pt, rs[r].exercise,
                                              s.set_number, rs[r].setsCount),
           rec_reps |-> computePoReps(rc, rs[r].exercise),
           feedback |-> IF s.feedback = "" THEN "on_target"
                        ELSE s.feedback ] ]
       \o sessionSets(rs, rc, up, pt, r + 1)

hasWeightAndReps(s) == s.weight # Blank /\ s.reps # Blank

hasWeight(s) == s.weight # Blank

\* Variant of enrichedSets that keeps every set with a weight.
enrichedSetsWeightOnly(rs, rc, up, pt) ==
  SelectSeq(sessionSets(rs, rc, up, pt, 1), hasWeight)

\* enrichedSets of finishSession: .filter(s => s.weight !== '' && s.reps !== '')
enrichedSets(rs, rc, up, pt) ==
  SelectSeq(sessionSets(rs, rc, up, pt, 1), hasWeightAndReps)

\* the items of getTopPRs: per exercise of recs the AI weight, else the rule
\* weight, else 0; those with a weight > 0 are kept
prItems(rc) ==
  { i \in { [ exercise |-> ex,
              weight |-> IF rc[ex].ai_weight # 0 THEN rc[ex].ai_weight
                         ELSE rc[ex].recommended_weight ] : ex \in DOMAIN rc } :
      i.weight # 0 /\ i.weight > 0 }

\* filtered.sort((a, b) => b.weight - a.weight).  Items of equal weight stay
\* in the key order of recs, which the map does not hold: one order is taken.
RECURSIVE byWeightDesc(_)
byWeightDesc(S) ==
  IF S = {} THEN << >>
  ELSE LET top == CHOOSE i \in S : \A j \in S : i.weight >= j.weight
       IN << top >> \o byWeightDesc(S \ { top })

\* getTopPRs(limit)
getTopPRs(rc, limit) ==
  LET all == byWeightDesc(prItems(rc))
  IN SubSeq(all, 1, Min(limit, Len(all)))

\* const topPRs = getTopPRs(4)
topPRs(rc) == getTopPRs(rc, 4)

\* ------------------------------------------------------------ localStorage
EmptyMap == [ e \in {} |-> 0 ]

\* localStorage with no item set.  A missing calendar or PO map loads like an
\* empty one, so those items are held as the empty set / empty map.
EmptyStorage ==
  [ bestStreak |-> Null, lastCelebrated |-> Null, finishedSessions |-> {},
    skippedSessions |-> {}, poTargets |-> EmptyMap,
    instrumentQueue |-> << >> ]

\* milestone counters: total and since the last planner reset
NoCelebrations == [ total |-> [ m \in milestones |-> 0 ],
                    sinceReset |-> [ m \in milestones |-> 0 ] ]

\* the celebration counters stop counting at this value
MaxCelebrations == 2

countCelebration(c, fired, m) ==
  IF fired
    THEN [ total |-> [ c.total EXCEPT ![m] = Min(@ + 1, MaxCelebrations) ],
           sinceReset |->
             [ c.sinceReset EXCEPT ![m] = Min(@ + 1, MaxCelebrations) ] ]
    ELSE c

\* no session POST awaits its response
NoBody == [ sent |-> FALSE, sets |-> << >> ]

\* no instrumentation call in progress, nothing received by the backend.
\* Events are numbered in the order of their enqueueInstrumentEvent calls.
NoInstrument ==
  [ created |-> 0, enqueues |-> {}, started |-> 0, flushes |-> {},
    received |-> << >> ]

\* the signed-in user's access token
DefaultToken == "token-1"

\* nothing has been sent yet
NoTraffic == [ token |-> DefaultToken, sent |-> << >>, forwarded |-> 0,
               backend |-> << >> ]

\* no second tab is open
NoOtherTab == [ open |-> FALSE, sessionActive |-> FALSE, poTargets |-> EmptyMap ]

\* no computePoSuggestion call under observation
NoProbe == [ exercise |-> "", setNumber |-> 0, setsCount |-> 0, result |-> Blank ]

\* The rows the build-rows effect makes on mount: selectedDay is 'Chest',
\* no profile and no recommendation has been loaded yet.
InitialRows == buildRowsForDay("Chest", NoProfile, EmptyMap)

\* ------------------------------------------------------------------- mount
\* The page after a (re)load at date now with storage ls: state starts at
\* its useState defaults, then the mount effects run in order.
\*  - load effect: calendars, poTargets and bestStreak are read from storage;
\*  - streak effect: runs on the empty calendar, then again on the loaded one;
\*  - milestone effect: runs on 0, then on the recomputed streak;
\*  - build-rows effect: selectedDay is 'Chest'; it still sees the initial
\*    empty poTargets, so it persists the baseline seeds, and that
\*    setPoTargets call comes after the load effect's.
Mounted(now, ls0) ==
  LET lsSeeded == [ ls0 EXCEPT !.poTargets = baselinePoTargets ]
      se == streakEffect(ls0.finishedSessions, now, lsSeeded)
      me == IF se[1] # 0 THEN milestoneEffect(se[1], se[3])
            ELSE << FALSE, se[3] >>
  IN [ finishedSessions |-> ls0.finishedSessions,
       skippedSessions |-> ls0.skippedSessions,
       streakCurrent |-> se[1],
       streakBest |-> se[2],
       celebrateMilestone |-> IF me[1] THEN se[1] ELSE Null,
       fired |-> me[1],
       localStorage |-> me[2],
       poTargets |-> baselinePoTargets,
       rows |-> InitialRows ]

SetMounted(now, ls0) ==
  LET m == Mounted(now, ls0) IN
  /\ finishedSessions' = m.finishedSessions
  /\ skippedSessions' = m.skippedSessions
  /\ streakCurrent' = m.streakCurrent
  /\ streakBest' = m.streakBest
  /\ celebrateMilestone' = m.celebrateMilestone
  /\ localStorage' = m.localStorage
  /\ poTargets' = m.poTargets
  /\ rows' = m.rows
  /\ recs' = EmptyMap
  /\ userProfile' = NoProfile
  /\ selectedDay' = "Chest"
  /\ selectedDateStr' = now
  /\ sessionActive' = FALSE
  /\ sessionFinished' = FALSE
  /\ submitting' = FALSE
  /\ finishClosure' = {}

\* First visit: day 0, nothing stored.
Init ==
  LET m == Mounted(0, EmptyStorage) IN
  /\ today = 0
  /\ finishedSessions = m.finishedSessions
  /\ skippedSessions = m.skippedSessions
  /\ streakCurrent = m.streakCurrent
  /\ streakBest = m.streakBest
  /\ celebrateMilestone = m.celebrateMilestone
  /\ localStorage = m.localStorage
  /\ poTargets = m.poTargets
  /\ rows = m.rows
  /\ recs = EmptyMap
  /\ userProfile = NoProfile
  /\ selectedDay = "Chest"
  /\ selectedDateStr = 0
  /\ sessionActive = FALSE
  /\ sessionFinished = FALSE
  /\ submitting = FALSE
  /\ finishClosure = {}
  /\ celebrated = NoCelebrations
  /\ streakAsOf = 0
  /\ probe = NoProbe
  /\ inFlight = NoBody
  /\ shown = EmptyMap
  /\ emptyAlert = FALSE
  /\ feedbackWrote = ""
  /\ instrument = NoInstrument
  /\ otherTab = NoOtherTab
  /\ api = NoTraffic

\* ----------------------------------------------------------------- actions
\* The user reloads the page (or comes back to it later).
Reload ==
  /\ SetMounted(today, localStorage)
  /\ celebrated' = countCelebration(celebrated,
                      Mounted(today, localStorage).fired,
                      Mounted(today, localStorage).streakCurrent)
  /\ streakAsOf' = today
  /\ inFlight' = NoBody
  /\ shown' = EmptyMap
  /\ emptyAlert' = FALSE
  /\ feedbackWrote' = ""
  /\ UNCHANGED << today, probe, sideVars >>

\* Midnight passes.  No state changes; the streak effect does not rerun.
DayRollover(lastDay) ==
  /\ today < lastDay
  /\ today' = today + 1
  /\ UNCHANGED << finishedSessions, skippedSessions, streakCurrent,
                  streakBest, celebrateMilestone, selectedDay,
                  selectedDateStr, sessionActive, sessionFinished, submitting,
                  finishClosure, celebrated, streakAsOf,
                  localStorage, poVars, probe, sideVars,
                  historyVars, finishVars >>

\* The 4.2 s timer set by a celebration clears the banner.
CelebrateTimeout ==
  /\ celebrateMilestone # Null
  /\ celebrateMilestone' = Null
  /\ UNCHANGED << today, finishedSessions, skippedSessions, streakCurrent,
                  streakBest, selectedDay, selectedDateStr, sessionActive,
                  sessionFinished, submitting, finishClosure, celebrated,
                  streakAsOf, localStorage, poVars, probe, sideVars,
                  historyVars, finishVars >>

\* openDay(dayType, dateStr) from a day card of the current week, followed
\* by the build-rows effect when selectedDay changed.
OpenDay(date) ==
  LET day == dayTypeOf(date)
      initial == buildRowsForDay(day, userProfile, recs)
  IN
  /\ date \in getWeekDates(today)
  /\ selectedDay' = day
  /\ selectedDateStr' = date
  /\ sessionActive' = FALSE
  /\ sessionFinished' = FALSE
  /\ IF day = selectedDay
       THEN UNCHANGED << rows, recs, poTargets, localStorage, shown >>
       ELSE IF Len(initial) = 0
         THEN /\ rows' = << >>
              /\ recs' = EmptyMap
              /\ shown' = EmptyMap
              /\ UNCHANGED << poTargets, localStorage >>
         ELSE /\ rows' = initial
              /\ shown' = EmptyMap
              /\ UNCHANGED recs
              /\ IF DOMAIN poTargets = {}
                   THEN /\ poTargets' = baselinePoTargets
                        /\ localStorage' =
                             [ localStorage EXCEPT
                                 !.poTargets = baselinePoTargets ]
                   ELSE UNCHANGED << poTargets, localStorage >>
  /\ UNCHANGED << today, finishedSessions, skippedSessions, streakCurrent,
                  streakBest, celebrateMilestone, submitting, finishClosure,
                  celebrated, streakAsOf, userProfile, probe, sideVars,
                  historyVars, inFlight >>

\* Variant of startSession without the early return on a Rest day.
StartSessionOnAnyDay ==
  /\ ~sessionActive
  /\ sessionActive' = TRUE
  /\ sessionFinished' = FALSE
  /\ UNCHANGED << today, finishedSessions, skippedSessions, streakCurrent,
                  streakBest, celebrateMilestone, selectedDay,
                  selectedDateStr, submitting, finishClosure, celebrated,
                  streakAsOf, localStorage, poVars, probe, sideVars,
                  historyVars, finishVars >>

\* startSession (the button is shown while no session is active)
StartSession ==
  /\ ~sessionActive
  /\ selectedDay # "Rest"
  /\ sessionActive' = TRUE
  /\ sessionFinished' = FALSE
  /\ UNCHANGED << today, finishedSessions, skippedSessions, streakCurrent,
                  streakBest, celebrateMilestone, selectedDay,
                  selectedDateStr, submitting, finishClosure, celebrated,
                  streakAsOf, localStorage, poVars, probe, sideVars,
                  historyVars, finishVars >>

\* handleSkipSession -> markSkippedFor(selectedDateStr || today).  The Skip
\* control is rendered for training days only.  The calendar is the only
\* thing the streak effect could react to, and it does not depend on it.
HandleSkipSession ==
  LET dateStr == IF selectedDateStr # Null THEN selectedDateStr ELSE today
      next == skippedSessions \cup {dateStr}
  IN
  /\ selectedDay # "Rest"
  /\ Cardinality(next) <= MaxSkips
  /\ skippedSessions' = next
  /\ localStorage' = [ localStorage EXCEPT !.skippedSessions = next ]
  /\ sessionActive' = FALSE
  /\ sessionFinished' = FALSE
  /\ UNCHANGED << today, finishedSessions, streakCurrent, streakBest,
                  celebrateMilestone, selectedDay, selectedDateStr,
                  submitting, finishClosure, celebrated, streakAsOf,
                  poVars, probe, sideVars,
                  historyVars, finishVars >>

\* finishSession up to its first await: the sets with weight and reps are
\* collected from the rows; with none the handler only alerts.  The call
\* keeps the finishedSessions of the render it was started from.
FinishSessionStart ==
  /\ sessionActive
  /\ ~submitting
  /\ hasEnrichedSets(rows)
  /\ submitting' = TRUE
  /\ finishClosure' = finishedSessions
  /\ inFlight' = [ sent |-> TRUE,
                   sets |-> enrichedSets(rows, recs, userProfile, poTargets) ]
  /\ emptyAlert' = FALSE
  /\ UNCHANGED feedbackWrote
  /\ UNCHANGED << today, finishedSessions, skippedSessions, streakCurrent,
                  streakBest, celebrateMilestone, selectedDay,
                  selectedDateStr, sessionActive, sessionFinished,
                  celebrated, streakAsOf, localStorage, poVars, probe, sideVars,
                  shown >>

\* The session POST succeeded: markFinishedFor(today), inputs are blanked,
\* the response may replace recs; then the streak effect runs (the calendar
\* changed) and the milestone effect (if streakCurrent changed).
FinishSessionOk(newRecs, replaceRecs) ==
  LET next == finishClosure \cup {today}
      ls1 == [ localStorage EXCEPT !.finishedSessions = next ]
      se == streakEffect(next, today, ls1)
      me == IF se[1] # streakCurrent THEN milestoneEffect(se[1], se[3])
            ELSE << FALSE, se[3] >>
  IN
  /\ submitting
  /\ Cardinality({ d \in next : dayTypeOf(d) = "Rest" }) <= MaxRestLogs
  /\ finishedSessions' = next
  /\ sessionFinished' = TRUE
  /\ sessionActive' = FALSE
  /\ submitting' = FALSE
  /\ finishClosure' = {}
  /\ rows' = clearedRows(rows)
  /\ recs' = IF replaceRecs THEN newRecs ELSE recs
  /\ streakCurrent' = se[1]
  /\ streakBest' = se[2]
  /\ localStorage' = me[2]
  /\ celebrateMilestone' = IF me[1] THEN se[1] ELSE celebrateMilestone
  /\ celebrated' = countCelebration(celebrated, me[1], se[1])
  /\ streakAsOf' = today
  /\ inFlight' = NoBody
  /\ shown' = EmptyMap
  /\ UNCHANGED << today, skippedSessions, selectedDay, selectedDateStr,
                  userProfile, probe, sideVars,
                  historyVars, poTargets >>

\* finishSession when no set has both a weight and reps: the handler alerts
\* and returns; setSubmitting(true) and the finally block's
\* setSubmitting(false) fall into one render, so no state changes.
FinishSessionEmpty ==
  /\ sessionActive
  /\ ~submitting
  /\ ~hasEnrichedSets(rows)
  /\ emptyAlert' = TRUE
  /\ UNCHANGED << streakVars, localStorage, poVars, probe, finishVars,
                  feedbackWrote, sideVars >>

\* Variant of the failure path in which the day was marked finished before
\* the POST was awaited.
FinishSessionFailMarked ==
  LET next == finishClosure \cup {today} IN
  /\ submitting
  /\ submitting' = FALSE
  /\ finishClosure' = {}
  /\ inFlight' = NoBody
  /\ finishedSessions' = next
  /\ localStorage' = [ localStorage EXCEPT !.finishedSessions = next ]
  /\ UNCHANGED << today, skippedSessions, streakCurrent,
                  streakBest, celebrateMilestone, selectedDay,
                  selectedDateStr, sessionActive, sessionFinished,
                  celebrated, streakAsOf, poVars, probe, sideVars,
                  shown, historyVars >>

\* The session POST failed: only the submitting flag is reset.
FinishSessionFail ==
  /\ submitting
  /\ submitting' = FALSE
  /\ finishClosure' = {}
  /\ inFlight' = NoBody
  /\ UNCHANGED << today, finishedSessions, skippedSessions, streakCurrent,
                  streakBest, celebrateMilestone, selectedDay,
                  selectedDateStr, sessionActive, sessionFinished,
                  celebrated, streakAsOf, localStorage, poVars, probe, sideVars,
                  historyVars,
                  shown >>

\* Variant of the reset that leaves the lastCelebrated item in storage.
ResetPlannerStateKeepsWatermark ==
  LET ls1 == [ localStorage EXCEPT
                 !.poTargets = baselinePoTargets,
                 !.finishedSessions = {}, !.skippedSessions = {},
                 !.bestStreak = Null ]
      se == streakEffect({}, today, ls1)
  IN
  /\ poTargets' = baselinePoTargets
  /\ finishedSessions' = {}
  /\ skippedSessions' = {}
  /\ sessionActive' = FALSE
  /\ sessionFinished' = FALSE
  /\ recs' = EmptyMap
  /\ streakCurrent' = se[1]
  /\ streakBest' = se[2]
  /\ localStorage' = se[3]
  /\ celebrateMilestone' = Null
  /\ selectedDateStr' = today
  /\ rows' = buildRowsForDay(selectedDay, userProfile, recs)
  /\ celebrated' = [ celebrated EXCEPT
                       !.sinceReset = [ m \in milestones |-> 0 ] ]
  /\ streakAsOf' = today
  /\ shown' = EmptyMap
  /\ UNCHANGED << today, selectedDay, submitting, finishClosure,
                  userProfile, probe, sideVars,
                  historyVars, inFlight >>

\* resetPlannerState (after the confirm dialog): the planner's storage keys
\* are removed, the PO seeds are persisted, calendars, streaks and session
\* flags are cleared and the rows are rebuilt.  The streak effect then runs
\* on the empty calendar and finds no stored best.
ResetPlannerState ==
  LET ls1 == [ localStorage EXCEPT
                 !.poTargets = baselinePoTargets,
                 !.finishedSessions = {}, !.skippedSessions = {},
                 !.bestStreak = Null, !.lastCelebrated = Null ]
      se == streakEffect({}, today, ls1)
  IN
  /\ poTargets' = baselinePoTargets
  /\ finishedSessions' = {}
  /\ skippedSessions' = {}
  /\ sessionActive' = FALSE
  /\ sessionFinished' = FALSE
  /\ recs' = EmptyMap
  /\ streakCurrent' = se[1]
  /\ streakBest' = se[2]
  /\ localStorage' = se[3]
  /\ celebrateMilestone' = Null
  /\ selectedDateStr' = today
  /\ rows' = buildRowsForDay(selectedDay, userProfile, recs)
  /\ celebrated' = [ celebrated EXCEPT
                       !.sinceReset = [ m \in milestones |-> 0 ] ]
  /\ streakAsOf' = today
  /\ shown' = EmptyMap
  /\ UNCHANGED << today, selectedDay, submitting, finishClosure,
                  userProfile, probe, sideVars,
                  historyVars, inFlight >>

\* ------------------------------------------------------------- PO actions
\* largest PO target the feedback buttons are followed to
MaxPo == 1000

\* values typed into the 'Update PO target' prompt (Number(next), not NaN)
EditInputs == { -1000, 333 }

\* handleSetFeedback(exIndex, setIndex, feedback): the PO target is
\* adjusted and the set's weight is recomputed with the returned target.
HandleSetFeedback(exIndex, setIndex, fb) ==
  LET row == rows[exIndex]
      ex == row.exercise
      adj == adjustPoTarget(poTargets, ex, feedbackDelta(fb))
      nextTarget == nextTargetFor(poTargets, ex, fb)
      s == row.sets[setIndex]
      nextWeight == poSuggestionFor(recs, userProfile, ex, s.set_number,
                                    row.setsCount, nextTarget)
  IN
  /\ sessionActive
  /\ exIndex \in DOMAIN rows
  /\ setIndex \in DOMAIN rows[exIndex].sets
  /\ adj[1] <= MaxPo
  /\ poTargets' = adj[2]
  /\ localStorage' = IF feedbackDelta(fb) # 0
                       THEN [ localStorage EXCEPT !.poTargets = adj[2] ]
                       ELSE localStorage
  /\ rows' = [ rows EXCEPT ![exIndex].sets[setIndex] =
                 [ s EXCEPT !.feedback = fb, !.weight = nextWeight ] ]
  /\ feedbackWrote' = IF feedbackDelta(fb) # 0 THEN "yes" ELSE "no"
  /\ UNCHANGED emptyAlert
  /\ UNCHANGED << streakVars, userProfile, probe, sideVars, finishVars, recs >>

\* The Edit prompt of a row: setPoTarget(exercise, parsed).
SetPoTarget(exIndex, kgPerWeek) ==
  LET ex == rows[exIndex].exercise
      next == [ e \in DOMAIN poTargets \cup {ex} |->
                  IF e = ex THEN kgPerWeek ELSE poTargets[e] ]
  IN
  /\ sessionActive
  /\ exIndex \in DOMAIN rows
  /\ poTargets' = next
  /\ localStorage' = [ localStorage EXCEPT !.poTargets = next ]
  /\ UNCHANGED << streakVars, userProfile, probe, sideVars,
                  historyVars, finishVars, rows, recs >>

\* values typed into a set's Kg and Reps inputs ('' clears the field)
TypedWeights == { Blank, 25000 }
TypedReps == { Blank, 8 }

\* updateSet(exIndex, setIndex, { weight }) or ({ reps }) from a set's
\* inputs; the suggestion on screen next to the inputs is remembered.
UpdateSet(exIndex, setIndex, field, value) ==
  LET r == rows[exIndex]
      s == r.sets[setIndex]
      onScreen == computePoSuggestion(recs, userProfile, poTargets,
                                      r.exercise, s.set_number, r.setsCount)
      key == << r.exercise, s.set_number >>
  IN
  /\ sessionActive
  /\ exIndex \in DOMAIN rows
  /\ setIndex \in DOMAIN rows[exIndex].sets
  /\ rows' = [ rows EXCEPT ![exIndex].sets[setIndex] =
                 IF field = "weight" THEN [ s EXCEPT !.weight = value ]
                 ELSE [ s EXCEPT !.reps = value ] ]
  /\ shown' = [ k \in DOMAIN shown \cup { key } |->
                  IF k = key THEN onScreen ELSE shown[k] ]
  /\ UNCHANGED << streakVars, localStorage, userProfile, probe, sideVars,
                  historyVars, inFlight,
                  poTargets, recs >>

\* applyRecommendedSets(row.exercise, rec.recommended_sets) from the Apply
\* button, rendered while the row's recommendation names a set count: the
\* row gets that many blank sets (without a feedback field, held as "").
ApplyRecommendedSets(exIndex) ==
  LET exercise == rows[exIndex].exercise
      target == recOf(recs, exercise).recommended_sets
  IN
  /\ sessionActive
  /\ exIndex \in DOMAIN rows
  /\ target # 0
  /\ rows' = [ r \in DOMAIN rows |->
       IF rows[r].exercise = exercise
         THEN [ exercise |-> rows[r].exercise,
                setsCount |-> target,
                sets |-> [ i \in 1..target |->
                   [ set_number |-> i, weight |-> Blank, reps |-> Blank,
                     feedback |-> "" ] ] ]
         ELSE rows[r] ]
  /\ shown' = [ k \in { q \in DOMAIN shown : q[1] # exercise } |-> shown[k] ]
  /\ UNCHANGED << streakVars, localStorage, userProfile, probe, sideVars,
                  historyVars, inFlight, poTargets, recs >>

\* Variant of updateSetsCount that numbers an added set by its array index.
UpdateSetsCountZeroBased(exIndex, newCount) ==
  LET r == rows[exIndex]
      count == Max(1, Min(8, newCount))
  IN
  /\ sessionActive
  /\ exIndex \in DOMAIN rows
  /\ newCount \in { r.setsCount - 1, r.setsCount + 1 }
  /\ rows' = [ rows EXCEPT ![exIndex] =
       [ exercise |-> r.exercise,
         setsCount |-> count,
         sets |-> [ idx \in 1..count |->
            IF idx \in DOMAIN r.sets
              THEN [ r.sets[idx] EXCEPT !.set_number = idx ]
              ELSE [ set_number |-> idx - 1, weight |-> Blank, reps |-> Blank,
                     feedback |-> "on_target" ] ] ] ]
  /\ shown' = [ k \in { q \in DOMAIN shown :
                            q[1] = r.exercise => q[2] <= count } |-> shown[k] ]
  /\ UNCHANGED << streakVars, localStorage, userProfile, probe, sideVars,
                  historyVars, inFlight, poTargets, recs >>

\* updateSetsCount(exIndex, newCount) from the - and + buttons
UpdateSetsCount(exIndex, newCount) ==
  LET r == rows[exIndex]
      count == Max(1, Min(8, newCount))
  IN
  /\ sessionActive
  /\ exIndex \in DOMAIN rows
  /\ newCount \in { r.setsCount - 1, r.setsCount + 1 }
  /\ rows' = [ rows EXCEPT ![exIndex] =
       [ exercise |-> r.exercise,
         setsCount |-> count,
         sets |-> [ idx \in 1..count |->
            IF idx \in DOMAIN r.sets
              THEN [ r.sets[idx] EXCEPT !.set_number = idx ]
              ELSE [ set_number |-> idx, weight |-> Blank, reps |-> Blank,
                     feedback |-> "on_target" ] ] ] ]
  /\ shown' = [ k \in { q \in DOMAIN shown :
                            q[1] = r.exercise => q[2] <= count } |-> shown[k] ]
  /\ UNCHANGED << streakVars, localStorage, userProfile, probe, sideVars,
                  historyVars, inFlight,
                  poTargets, recs >>

\* fetchRecommendations: the response for one row arrives and is merged
RecChoices ==
  { [ NoRec EXCEPT !.recommended_weight = 20000, !.recommended_reps = 8 ] }

\* Variant of fetchRecommendations that also persists the exercise's seed as
\* its PO target when the response arrives.
FetchRecommendationsSeeds(exIndex, data) ==
  LET ex == rows[exIndex].exercise
      next == [ e \in DOMAIN poTargets \cup {ex} |->
                  IF e = ex THEN seedPoForExercise(ex) ELSE poTargets[e] ]
  IN
  /\ exIndex \in DOMAIN rows
  /\ recs' = [ e \in DOMAIN recs \cup {ex} |->
                 IF e = ex THEN data ELSE recs[e] ]
  /\ poTargets' = next
  /\ localStorage' = [ localStorage EXCEPT !.poTargets = next ]
  /\ UNCHANGED << streakVars, userProfile, probe, sideVars, historyVars,
                  finishVars, rows >>

FetchRecommendations(exIndex, data) ==
  LET ex == rows[exIndex].exercise IN
  /\ exIndex \in DOMAIN rows
  /\ recs' = [ e \in DOMAIN recs \cup {ex} |->
                 IF e = ex THEN data ELSE recs[e] ]
  /\ UNCHANGED << streakVars, localStorage, userProfile, probe, sideVars,
                  historyVars, finishVars,
                  poTargets, rows >>

\* --------------------------------------------------------- instrumentation
\* how many events are created and how many flushes are started
MaxEvents == 2
MaxFlushes == 2

\* getInstrumentQueue(): the stored queue, [] when the item is missing.  An
\* item {event, ts} is held as its event.
getInstrumentQueue(ls) == ls.instrumentQueue

\* saveInstrumentQueue(q)
saveInstrumentQueue(ls, q) == [ ls EXCEPT !.instrumentQueue = q ]

\* enqueueInstrumentEvent(event) is called (by finishSession, after a logged
\* session): the POST of the event is sent and awaited.
EnqueueInstrumentEvent ==
  /\ instrument.created < MaxEvents
  /\ instrument' = [ instrument EXCEPT
                       !.created = @ + 1,
                       !.enqueues = @ \cup { instrument.created + 1 } ]
  /\ UNCHANGED << streakVars, localStorage, poVars, probe, finishVars,
                  historyVars, otherTab, api >>

\* The POST of enqueueInstrumentEvent(event) is settled: on a failure the
\* queue is read, the event appended and the queue saved.
EnqueueSettled(event, ok) ==
  /\ event \in instrument.enqueues
  /\ instrument' = [ instrument EXCEPT
                       !.enqueues = @ \ { event },
                       !.received = IF ok THEN Append(@, event) ELSE @ ]
  /\ localStorage' =
       IF ok THEN localStorage
       ELSE saveInstrumentQueue(localStorage,
              Append(getInstrumentQueue(localStorage), event))
  /\ UNCHANGED << streakVars, poVars, probe, finishVars, historyVars,
                  otherTab, api >>

\* flushInstrumentQueue() from the 'Sync data' button: the queue is read
\* once; an empty queue ends the call; the first item's POST is sent.
FlushInstrumentQueue ==
  LET q == getInstrumentQueue(localStorage) IN
  /\ instrument.started < MaxFlushes
  /\ Len(q) > 0
  /\ instrument' = [ instrument EXCEPT
                       !.started = @ + 1,
                       !.flushes = @ \cup { [ id |-> instrument.started + 1,
                                              q |-> q, i |-> 1,
                                              remaining |-> << >> ] } ]
  /\ UNCHANGED << streakVars, localStorage, poVars, probe, finishVars,
                  historyVars, otherTab, api >>

\* A POST of a flush is settled: a failed item is kept in 'remaining'; the
\* next item is sent, or, after the last one, 'remaining' is saved as the
\* queue.
FlushSettled(f, ok) ==
  LET item == f.q[f.i]
      remaining == IF ok THEN f.remaining ELSE Append(f.remaining, item)
  IN
  /\ f \in instrument.flushes
  /\ instrument' = [ instrument EXCEPT
                       !.flushes =
                          IF f.i = Len(f.q) THEN @ \ { f }
                          ELSE (@ \ { f }) \cup
                                 { [ f EXCEPT !.i = @ + 1,
                                              !.remaining = remaining ] },
                       !.received = IF ok THEN Append(@, item) ELSE @ ]
  /\ localStorage' =
       IF f.i = Len(f.q)
         THEN saveInstrumentQueue(localStorage, remaining)
         ELSE localStorage
  /\ UNCHANGED << streakVars, poVars, probe, finishVars, historyVars,
                  otherTab, api >>

\* ------------------------------------------------------------ a second tab
\* The same page opened in a second tab (or on reload there): it mounts on
\* the shared localStorage as the first one does.  Of its state the model
\* keeps the PO targets and the session flag; no handler listens to storage
\* events, so neither tab sees what the other wrote until it reloads.
OtherTabOpen ==
  LET m == Mounted(today, localStorage) IN
  /\ otherTab' = [ open |-> TRUE, sessionActive |-> FALSE,
                   poTargets |-> m.poTargets ]
  /\ localStorage' = m.localStorage
  /\ UNCHANGED << streakVars, poVars, probe, finishVars, historyVars,
                  instrument, api >>

\* startSession in the second tab (its selected day is 'Chest')
OtherTabStartSession ==
  /\ otherTab.open
  /\ ~otherTab.sessionActive
  /\ otherTab' = [ otherTab EXCEPT !.sessionActive = TRUE ]
  /\ UNCHANGED << streakVars, localStorage, poVars, probe, finishVars,
                  historyVars, instrument, api >>

\* setPoTarget(exercise, kgPerWeek) in the second tab: its own map with the
\* one entry replaced is persisted
OtherTabSetPoTarget(exercise, kgPerWeek) ==
  LET next == [ e \in DOMAIN otherTab.poTargets \cup {exercise} |->
                  IF e = exercise THEN kgPerWeek ELSE otherTab.poTargets[e] ]
  IN
  /\ otherTab.open
  /\ otherTab.sessionActive
  /\ otherTab' = [ otherTab EXCEPT !.poTargets = next ]
  /\ localStorage' = [ localStorage EXCEPT !.poTargets = next ]
  /\ UNCHANGED << streakVars, poVars, probe, finishVars, historyVars,
                  instrument, api >>

\* handleSetFeedback in the second tab, as far as the PO targets go
OtherTabSetFeedback(exercise, fb) ==
  LET adj == adjustPoTarget(otherTab.poTargets, exercise, feedbackDelta(fb)) IN
  /\ otherTab.open
  /\ otherTab.sessionActive
  /\ feedbackDelta(fb) # 0
  /\ adj[1] <= MaxPo
  /\ otherTab' = [ otherTab EXCEPT !.poTargets = adj[2] ]
  /\ localStorage' = [ localStorage EXCEPT !.poTargets = adj[2] ]
  /\ UNCHANGED << streakVars, poVars, probe, finishVars, historyVars,
                  instrument, api >>

\* ---------------------------------------------------------------- API calls
\* The places that call an /api route: the route, and whether the call is
\* given the headers of getAuthHeaders() / the session's bearer token.
CallSites ==
  { [ site |-> "loadUserProfile", route |-> "/api/profile_proxy",
      withAuth |-> TRUE ],
    [ site |-> "fetchRecommendations", route |-> "/api/recommendation_proxy",
      withAuth |-> TRUE ],
    [ site |-> "finishSession", route |-> "/api/session_proxy",
      withAuth |-> TRUE ],
    [ site |-> "saveWeeklyWeight", route |-> "/api/weight_proxy",
      withAuth |-> FALSE ],
    [ site |-> "sendInstrumentEvent", route |-> "/api/instrument",
      withAuth |-> FALSE ],
    [ site |-> "StatsPanel.load", route |-> "/api/analytics",
      withAuth |-> FALSE ],
    [ site |-> "Analytics.fetchData", route |-> "/api/analytics_proxy",
      withAuth |-> FALSE ],
    [ site |-> "SettingsPanel.loadProfile", route |-> "/api/profile_proxy",
      withAuth |-> TRUE ],
    [ site |-> "SettingsPanel.saveProfile", route |-> "/api/profile_proxy",
      withAuth |-> TRUE ] }

\* The proxy handlers: per route, whether the handler passes
\* req.headers.authorization on to the backend.  Two handlers are on file
\* for the session and the analytics proxy, one that does and one that does
\* not; either may be the one deployed.  No handler is on file for
\* /api/instrument and /api/analytics.
proxyForwardsAuth(route) ==
  CASE route = "/api/profile_proxy" -> { TRUE }
    [] route = "/api/recommendation_proxy" -> { TRUE }
    [] route = "/api/weight_proxy" -> { FALSE }
    [] route = "/api/session_proxy" -> { TRUE, FALSE }
    [] route = "/api/analytics_proxy" -> { TRUE, FALSE }
    [] OTHER -> {}

\* how many requests are followed
MaxRequests == 2

\* A call site issues its request; the Authorization header is the bearer
\* token when the call passes the auth headers, and absent ("") otherwise.
ApiCall(c) ==
  /\ Len(api.sent) < MaxRequests
  /\ api' = [ api EXCEPT !.sent = Append(@,
                 [ site |-> c.site, route |-> c.route,
                   authorization |-> IF c.withAuth THEN api.token ELSE "" ]) ]
  /\ UNCHANGED << streakVars, localStorage, poVars, probe, finishVars,
                  historyVars, instrument, otherTab >>

\* The proxy handler of the oldest request not yet handled sends it on to
\* the backend (req.headers.authorization || '' when it forwards the
\* header); a request to a route without handler on file stays where it is.
ProxyForward(forwards) ==
  LET req == api.sent[api.forwarded + 1] IN
  /\ api.forwarded < Len(api.sent)
  /\ IF proxyForwardsAuth(req.route) = {}
       THEN /\ forwards = FALSE
            /\ api' = [ api EXCEPT !.forwarded = @ + 1 ]
       ELSE /\ forwards \in proxyForwardsAuth(req.route)
            /\ api' = [ api EXCEPT !.forwarded = @ + 1,
                          !.backend = Append(@,
                            [ site |-> req.site, route |-> req.route,
                              authorization |-> IF forwards
                                                  THEN req.authorization
                                                  ELSE "" ]) ]
  /\ UNCHANGED << streakVars, localStorage, poVars, probe, finishVars,
                  historyVars, instrument, otherTab >>

\* ---------------------------------------------------------- specifications
\* the rows the user edits and rates, and the last set of a row they rate
ActedRows == {1, 2}
MaxSetIndex == 1

NextSkip ==
  \/ Reload
  \/ DayRollover(MaxSkipDay)
  \/ CelebrateTimeout
  \/ \E date \in getWeekDates(today) : OpenDay(date)
  \/ StartSession
  \/ HandleSkipSession
  \/ FinishSessionStart
  \/ FinishSessionOk(EmptyMap, FALSE)
  \/ FinishSessionFail
  \/ ResetPlannerState

SpecSkip == Init /\ [][NextSkip]_vars

NextStreak ==
  \/ Reload
  \/ DayRollover(MaxDay)
  \/ CelebrateTimeout
  \/ StartSession
  \/ FinishSessionStart
  \/ FinishSessionOk(EmptyMap, FALSE)
  \/ FinishSessionFail
  \/ ResetPlannerState

SpecStreak == Init /\ [][NextStreak]_vars

Feedbacks == { "too_easy", "too_hard", "on_target" }

NextPO ==
  \/ Reload
  \/ ResetPlannerState
  \/ StartSession
  \/ \E exIndex \in ActedRows, setIndex \in 1..MaxSetIndex, fb \in Feedbacks :
       HandleSetFeedback(exIndex, setIndex, fb)
  \/ \E exIndex \in ActedRows, kg \in EditInputs : SetPoTarget(exIndex, kg)

SpecPO == Init /\ [][NextPO]_vars

\* Logging and finishing a session: the user types into set 1 of the first
\* row, rates set 2 of it, and finishes.
LoggedSets == {1}
RatedSets == {2}

\* the + button of the first row (4 sets by default) is followed to this count
MaxRowSets == 5

NextFinish ==
  \/ StartSession
  \/ \E setIndex \in LoggedSets, w \in TypedWeights :
       UpdateSet(1, setIndex, "weight", w)
  \/ \E setIndex \in LoggedSets, n \in TypedReps :
       UpdateSet(1, setIndex, "reps", n)
  \/ \E setIndex \in RatedSets, fb \in Feedbacks :
       HandleSetFeedback(1, setIndex, fb)
  \/ \E newCount \in 4..MaxRowSets : UpdateSetsCount(1, newCount)
  \/ \E data \in RecChoices : FetchRecommendations(1, data)
  \/ FinishSessionStart
  \/ FinishSessionOk(EmptyMap, FALSE)
  \/ FinishSessionFail

SpecFinish == Init /\ [][NextFinish]_vars

\* A session in which the user rates the first set of the first row and
\* edits the row's target, recommendations arrive, the session is logged
\* (the response may carry refreshed recommendations), the page is reloaded
\* or the planner reset.
\* data.recommendations of a session response
SessionRecs ==
  [ e \in { "Incline Dumbbell Press" } |->
      [ NoRec EXCEPT !.recommended_weight = 20000, !.recommended_reps = 8,
                     !.ai_weight = 22250, !.ai_reps = 6 ] ]

NextSession ==
  \/ Reload
  \/ StartSession
  \/ \E fb \in Feedbacks : HandleSetFeedback(1, 1, fb)
  \/ \E kg \in EditInputs : SetPoTarget(1, kg)
  \/ \E data \in RecChoices : FetchRecommendations(1, data)
  \/ FinishSessionStart
  \/ FinishSessionOk(EmptyMap, FALSE)
  \/ FinishSessionOk(SessionRecs, TRUE)
  \/ FinishSessionFail
  \/ ResetPlannerState

SpecSession == Init /\ [][NextSession]_vars

\* Logging a session with every outcome of finishSession: the user types
\* into the first set, logs the session (the POST succeeds or fails), or
\* tries to log it with no complete set; midnight passes; the page is
\* reloaded.
MaxLogDay == 1

NextLog ==
  \/ Reload
  \/ DayRollover(MaxLogDay)
  \/ StartSession
  \/ \E w \in TypedWeights : UpdateSet(1, 1, "weight", w)
  \/ \E n \in TypedReps : UpdateSet(1, 1, "reps", n)
  \/ FinishSessionStart
  \/ FinishSessionEmpty
  \/ FinishSessionOk(EmptyMap, FALSE)
  \/ FinishSessionFail

\* The POST of a session is answered or rejected (axios rejects on a
\* network error and on an error status), so a pending finishSession call
\* goes on to its success path or to its catch block.
SpecLog ==
  /\ Init
  /\ [][NextLog]_vars
  /\ WF_vars(FinishSessionOk(EmptyMap, FALSE) \/ FinishSessionFail)

\* Resetting the planner after use: over the first days sessions are logged
\* or skipped, the first exercise is rated harder or has its target edited,
\* a milestone may be celebrated, and the planner is reset.
MaxResetDay == 3
ResetInputs == { 750 }

NextReset ==
  \/ Reload
  \/ DayRollover(MaxResetDay)
  \/ CelebrateTimeout
  \/ StartSession
  \/ HandleSkipSession
  \/ HandleSetFeedback(1, 1, "too_hard")
  \/ \E kg \in ResetInputs : SetPoTarget(1, kg)
  \/ FinishSessionStart
  \/ FinishSessionOk(EmptyMap, FALSE)
  \/ FinishSessionFail
  \/ ResetPlannerState

SpecReset == Init /\ [][NextReset]_vars

\* Instrumentation: events are created, their POSTs succeed or fail, and
\* the 'Sync data' button is pressed, also while a flush is in progress.
NextInstrument ==
  \/ EnqueueInstrumentEvent
  \/ \E event \in 1..MaxEvents, ok \in BOOLEAN : EnqueueSettled(event, ok)
  \/ FlushInstrumentQueue
  \/ \E f \in instrument.flushes, ok \in BOOLEAN : FlushSettled(f, ok)

SpecInstrument == Init /\ [][NextInstrument]_vars

\* Moving between the day cards of the first week, Rest days included,
\* while sessions are started, logged and the planner is reset; the clock
\* runs up to the first Rest day.
MaxRestDay == 2

NextRest ==
  \/ Reload
  \/ DayRollover(MaxRestDay)
  \/ \E date \in getWeekDates(today) : OpenDay(date)
  \/ StartSession
  \/ FinishSessionStart
  \/ FinishSessionOk(EmptyMap, FALSE)
  \/ FinishSessionFail
  \/ ResetPlannerState

SpecRest == Init /\ [][NextRest]_vars

\* The API traffic of a signed-in user.
Tokens == { "token-1", "token-2" }

InitApi ==
  LET m == Mounted(0, EmptyStorage) IN
  /\ today = 0
  /\ finishedSessions = m.finishedSessions
  /\ skippedSessions = m.skippedSessions
  /\ streakCurrent = m.streakCurrent
  /\ streakBest = m.streakBest
  /\ celebrateMilestone = m.celebrateMilestone
  /\ localStorage = m.localStorage
  /\ poTargets = m.poTargets
  /\ rows = m.rows
  /\ recs = EmptyMap
  /\ userProfile = NoProfile
  /\ selectedDay = "Chest"
  /\ selectedDateStr = 0
  /\ sessionActive = FALSE
  /\ sessionFinished = FALSE
  /\ submitting = FALSE
  /\ finishClosure = {}
  /\ celebrated = NoCelebrations
  /\ streakAsOf = 0
  /\ probe = NoProbe
  /\ inFlight = NoBody
  /\ shown = EmptyMap
  /\ emptyAlert = FALSE
  /\ feedbackWrote = ""
  /\ instrument = NoInstrument
  /\ otherTab = NoOtherTab
  /\ \E t \in Tokens : api = [ NoTraffic EXCEPT !.token = t ]

NextApi ==
  \/ \E c \in CallSites : ApiCall(c)
  \/ \E forwards \in BOOLEAN : ProxyForward(forwards)

SpecApi == InitApi /\ [][NextApi]_vars

\* Two tabs on one localStorage: in the first the user edits and rates the
\* first row's exercise, in the second the first and the second row's.
OtherTabExercises == { "Incline Dumbbell Press", "Smith Machine Press" }

\* values typed into the Edit prompt in either tab
TabInputs == { 333, 750 }

NextTabs ==
  \/ Reload
  \/ StartSession
  \/ \E kg \in TabInputs : SetPoTarget(1, kg)
  \/ \E fb \in Feedbacks : HandleSetFeedback(1, 1, fb)
  \/ OtherTabOpen
  \/ OtherTabStartSession
  \/ \E ex \in OtherTabExercises, kg \in TabInputs :
       OtherTabSetPoTarget(ex, kg)
  \/ \E ex \in OtherTabExercises, fb \in Feedbacks :
       OtherTabSetFeedback(ex, fb)

SpecTabs == Init /\ [][NextTabs]_vars

\* The rows of a day under every handler that writes them: a day card is
\* opened, the set count of the first row is changed with - and +, a
\* recommended set count arrives and is applied, the first set is typed
\* into and rated.
\* set counts a recommendation names (recommended_sets)
RecommendedSets == { 2, 10 }

RowRecChoices ==
  { [ NoRec EXCEPT !.recommended_weight = 20000, !.recommended_reps = 8,
                   !.recommended_sets = n ] : n \in RecommendedSets }

\* values newCount takes at the - and + buttons
MaxNewCount == 11

\* the day cards that are opened: Monday (Chest) and Wednesday (Rest)
OpenedDates == { 0, 2 }

NextRows ==
  \/ \E date \in OpenedDates : OpenDay(date)
  \/ StartSession
  \/ \E newCount \in 0..MaxNewCount : UpdateSetsCount(1, newCount)
  \/ \E data \in RowRecChoices : FetchRecommendations(1, data)
  \/ ApplyRecommendedSets(1)
  \/ \E w \in TypedWeights : UpdateSet(1, 1, "weight", w)
  \/ \E n \in TypedReps : UpdateSet(1, 1, "reps", n)
  \/ \E fb \in Feedbacks : HandleSetFeedback(1, 1, fb)

SpecRows == Init /\ [][NextRows]_vars

\* --------------------------------------------- the suggestion as a function
\* largest set number and set count computePoSuggestion is probed with
MaxProbeSets == 8

ProbeExercises == { "Incline Dumbbell Press", "Lateral Raises", "Shoulder Press" }

\* stored PO targets the suggestion is probed with
ProbePoTargets == { -100000, -1000, 0, 250, 333, 500, 1000, 2000 }

\* recommendation payloads the suggestion is probed with
ProbeRecs ==
  { NoRec,
    [ NoRec EXCEPT !.recommended_weight = 20000, !.recommended_reps = 8 ],
    [ NoRec EXCEPT !.recommended_weight = 20000, !.recommended_reps = 8,
                   !.ai_weight = 22250, !.ai_reps = 6 ],
    [ NoRec EXCEPT !.recommended_weight = 20000, !.recommended_reps = 8,
                   !.ai_weight = -5000, !.ai_reps = 6 ] }

ProbeProfiles ==
  { NoProfile,
    [ NoProfile EXCEPT !.loaded = TRUE, !.age = 30, !.current_weight_kg = 60,
                       !.height_cm = 170, !.ideal_weight_kg = 65 ] }

\* The page with one PO target edited, one recommendation received and a
\* profile loaded or not; computePoSuggestion is about to be called.  The
\* set count ranges from 0 although the rows never hold 0 sets.
InitSuggest ==
  LET m == Mounted(0, EmptyStorage) IN
  /\ today = 0
  /\ finishedSessions = m.finishedSessions
  /\ skippedSessions = m.skippedSessions
  /\ streakCurrent = m.streakCurrent
  /\ streakBest = m.streakBest
  /\ celebrateMilestone = m.celebrateMilestone
  /\ rows = m.rows
  /\ selectedDay = "Chest"
  /\ selectedDateStr = 0
  /\ sessionActive = TRUE
  /\ sessionFinished = FALSE
  /\ submitting = FALSE
  /\ finishClosure = {}
  /\ celebrated = NoCelebrations
  /\ streakAsOf = 0
  /\ inFlight = NoBody
  /\ shown = EmptyMap
  /\ emptyAlert = FALSE
  /\ feedbackWrote = ""
  /\ instrument = NoInstrument
  /\ otherTab = NoOtherTab
  /\ api = NoTraffic
  /\ userProfile \in ProbeProfiles
  /\ \E ex \in ProbeExercises :
       /\ \E po \in ProbePoTargets :
            /\ poTargets = [ baselinePoTargets EXCEPT ![ex] = po ]
            /\ localStorage = [ m.localStorage EXCEPT !.poTargets = poTargets ]
       /\ \E rec \in ProbeRecs :
            recs = IF rec = NoRec THEN EmptyMap ELSE [ e \in {ex} |-> rec ]
       /\ \E k \in 1..MaxProbeSets, n \in 0..MaxProbeSets :
            probe = [ exercise |-> ex, setNumber |-> k, setsCount |-> n,
                      result |-> Blank ]

\* computePoSuggestion(exercise, setNumber, setsCount) is evaluated
ComputePoSuggestion ==
  /\ probe.exercise # ""
  /\ probe.result = Blank
  /\ probe' = [ probe EXCEPT !.result =
        computePoSuggestion(recs, userProfile, poTargets, probe.exercise,
                            probe.setNumber, probe.setsCount) ]
  /\ UNCHANGED << streakVars, localStorage, poVars, finishVars, historyVars,
                  sideVars >>

NextSuggest == ComputePoSuggestion

SpecSuggest == InitSuggest /\ [][NextSuggest]_vars

\* ------------------------------------------- the initial weight as a function
\* largest body weight (kg) computeInitialWeightForExercise is probed with
MaxBodyWeightKg == 130

\* every planned exercise, and one the multiplier table does not list
SeedExercises == Exercises \cup { "Cable Crunch" }

\* The page with a loaded profile of some body weight;
\* computeInitialWeightForExercise is about to be called for an exercise.
InitSeed ==
  LET m == Mounted(0, EmptyStorage) IN
  /\ today = 0
  /\ finishedSessions = m.finishedSessions
  /\ skippedSessions = m.skippedSessions
  /\ streakCurrent = m.streakCurrent
  /\ streakBest = m.streakBest
  /\ celebrateMilestone = m.celebrateMilestone
  /\ localStorage = m.localStorage
  /\ poTargets = m.poTargets
  /\ rows = m.rows
  /\ recs = EmptyMap
  /\ selectedDay = "Chest"
  /\ selectedDateStr = 0
  /\ sessionActive = FALSE
  /\ sessionFinished = FALSE
  /\ submitting = FALSE
  /\ finishClosure = {}
  /\ celebrated = NoCelebrations
  /\ streakAsOf = 0
  /\ inFlight = NoBody
  /\ shown = EmptyMap
  /\ emptyAlert = FALSE
  /\ feedbackWrote = ""
  /\ instrument = NoInstrument
  /\ otherTab = NoOtherTab
  /\ api = NoTraffic
  /\ \E bw \in 1..MaxBodyWeightKg :
       userProfile = [ NoProfile EXCEPT !.loaded = TRUE, !.age = 30,
                                        !.current_weight_kg = bw,
                                        !.height_cm = 170 ]
  /\ \E ex \in SeedExercises :
       probe = [ exercise |-> ex, setNumber |-> 0, setsCount |-> 0,
                 result |-> Blank ]

\* computeInitialWeightForExercise(exercise, getUserProfile()) is evaluated
ComputeInitialWeight ==
  /\ probe.exercise # ""
  /\ probe.result = Blank
  /\ probe' = [ probe EXCEPT !.result =
        computeInitialWeightForExercise(probe.exercise,
                                        profileWeightKg(userProfile)) ]
  /\ UNCHANGED << streakVars, localStorage, poVars, finishVars, historyVars,
                  sideVars >>

NextSeed == ComputeInitialWeight

SpecSeed == InitSeed /\ [][NextSeed]_vars

\* --------------------------------------------------- the profile resolvers
\* field values of the stored profile; 0 and "" stand for a missing field
ProfileSexes == { "", "male", "female" }
ProfileAges == { 0, 25, 30, 41 }
ProfileWeights == { 0, 60, 70, 83 }
ProfileHeights == { 0, 160, 175, 181 }
ProfileIdealWeights == { 0, 65, 85, 90 }

StoredProfiles ==
  { NoProfile } \cup
  [ loaded : { TRUE }, sex : ProfileSexes, age : ProfileAges,
    current_weight_kg : ProfileWeights, height_cm : ProfileHeights,
    ideal_weight_kg : ProfileIdealWeights ]

\* no resolver call under observation
NoResolved == [ call |-> "", profile |-> NoProfile ]

\* The page with no profile or with a profile loaded from the backend;
\* getUserProfile or getIdealProfile is about to be called.
InitProfile ==
  LET m == Mounted(0, EmptyStorage) IN
  /\ today = 0
  /\ finishedSessions = m.finishedSessions
  /\ skippedSessions = m.skippedSessions
  /\ streakCurrent = m.streakCurrent
  /\ streakBest = m.streakBest
  /\ celebrateMilestone = m.celebrateMilestone
  /\ localStorage = m.localStorage
  /\ poTargets = m.poTargets
  /\ rows = m.rows
  /\ recs = EmptyMap
  /\ selectedDay = "Chest"
  /\ selectedDateStr = 0
  /\ sessionActive = FALSE
  /\ sessionFinished = FALSE
  /\ submitting = FALSE
  /\ finishClosure = {}
  /\ celebrated = NoCelebrations
  /\ streakAsOf = 0
  /\ inFlight = NoBody
  /\ shown = EmptyMap
  /\ emptyAlert = FALSE
  /\ feedbackWrote = ""
  /\ instrument = NoInstrument
  /\ otherTab = NoOtherTab
  /\ api = NoTraffic
  /\ userProfile \in StoredProfiles
  /\ probe = NoResolved

\* getUserProfile() is evaluated
GetUserProfile ==
  /\ probe = NoResolved
  /\ probe' = [ call |-> "getUserProfile",
                profile |-> getUserProfile(userProfile) ]
  /\ UNCHANGED << streakVars, localStorage, poVars, finishVars, historyVars,
                  sideVars >>

\* getIdealProfile() is evaluated
GetIdealProfile ==
  /\ probe = NoResolved
  /\ probe' = [ call |-> "getIdealProfile",
                profile |-> getIdealProfile(userProfile) ]
  /\ UNCHANGED << streakVars, localStorage, poVars, finishVars, historyVars,
                  sideVars >>

NextProfile == GetUserProfile \/ GetIdealProfile

SpecProfile == InitProfile /\ [][NextProfile]_vars

\* ------------------------------------------------------------------ claims
isTrainingDay(d) == dayTypeOf(d) # "Rest"

\* The streak stated over the calendar: the training days d of the last 365
\* days such that every training day from d up to now is finished.
finishedRun(finished, now) ==
  { d \in finished :
      /\ d <= now
      /\ d > now - WalkDays
      /\ isTrainingDay(d)
      /\ \A e \in d..now : isTrainingDay(e) => e \in finished }

bestStored == IF localStorage.bestStreak # Null THEN localStorage.bestStreak ELSE 0

lastCelebratedStored ==
  IF localStorage.lastCelebrated # Null THEN localStorage.lastCelebrated ELSE 0

\* C1: the current streak is the number of finished training days found
\* walking back from the day of the computation, Rest days being passed over
\* and the first unfinished training day ending the walk; with Mon, Tue, Thu
\* and Fri finished and today = Fri it is 4.
C1_StreakIsBackwardRun ==
  /\ streakCurrent = Cardinality(finishedRun(finishedSessions, streakAsOf))
  /\ (streakAsOf = 4 /\ finishedSessions = {0, 1, 3, 4}) => streakCurrent = 4

C1_Witness ==
  /\ streakAsOf = 4
  /\ today = 4
  /\ finishedSessions = {0, 1, 3, 4}
  /\ streakCurrent = 4

\* C3 as claimed: with Mon, Tue and Fri finished, Thu unmarked and
\* today = Fri, the streak is 2.
C3_ThuUnmarkedGivesTwo ==
  (streakAsOf = 4 /\ finishedSessions = {0, 1, 4}) => streakCurrent = 2

\* C3 amended: in that scenario the streak is 1: Fri counts, and the walk
\* stops at the unfinished Thu before it reaches Tue and Mon.
C3_ThuUnmarkedGivesOne ==
  (streakAsOf = 4 /\ finishedSessions = {0, 1, 4}) => streakCurrent = 1

C3_Witness ==
  /\ streakAsOf = 4
  /\ today = 4
  /\ finishedSessions = {0, 1, 4}
  /\ streakCurrent = 1

\* C4 as claimed: over any operation, planner reset included, the best
\* streak (state and storage) never becomes smaller, and it is at least the
\* current streak.
C4_BestNeverDecreases ==
  [][ /\ streakBest' >= streakBest
      /\ bestStored' >= bestStored
      /\ streakCurrent' <= streakBest' ]_vars

\* C4 amended: the best streak never becomes smaller in any step other than
\* resetPlannerState, which sets it to 0; after every step it is at least
\* the current streak, in state and in storage.
C4_BestNeverDecreasesButReset ==
  [][ /\ ~ResetPlannerState => /\ streakBest' >= streakBest
                               /\ bestStored' >= bestStored
      /\ streakCurrent' <= streakBest'
      /\ streakBest' = bestStored' ]_vars

\* the best streak stays above a current streak that has dropped
C4_Witness ==
  /\ streakBest = 3
  /\ bestStored = 3
  /\ streakCurrent = 1
  /\ today > 4

\* C5 as claimed: each milestone value is celebrated once and never again.
C5_CelebratedOnceEver ==
  \A m \in milestones : celebrated.total[m] <= 1

\* C5 amended: each milestone value is celebrated at most once for as long as
\* the lastCelebrated watermark is not cleared by resetPlannerState - not
\* again when the streak drops and climbs back to it, nor on a page reload -
\* and a streak standing at a milestone has been celebrated up to that value.
C5_CelebratedOncePerWatermark ==
  /\ \A m \in milestones : celebrated.sinceReset[m] <= 1
  /\ streakCurrent \in milestones => lastCelebratedStored >= streakCurrent

\* the streak is back at 3 after a missed Friday, celebrated once
C5_Witness ==
  /\ streakCurrent = 3
  /\ finishedSessions = {0, 1, 3, 7, 8, 10}
  /\ celebrated.total[3] = 1
  /\ celebrated.sinceReset[3] = 1

\* The streak the claim describes: a skipped day that is not finished counts
\* as a Rest day, so it is neither counted nor ends the walk.
skipAwareRun(finished, skipped, now) ==
  { d \in finished :
      /\ d <= now
      /\ d > now - WalkDays
      /\ isTrainingDay(d)
      /\ \A e \in d..now :
           (isTrainingDay(e) /\ e \notin skipped) => e \in finished }

\* C2: a training day marked as skipped is treated like a Rest day by the
\* streak: the current streak equals the streak of the same calendar with
\* the skipped, unfinished days being Rest days.
C2_SkippedCountsAsRest ==
  streakCurrent =
    Cardinality(skipAwareRun(finishedSessions, skippedSessions, streakAsOf))

\* r is x rounded to 2 decimal places (halves upward), in thousandths
isRoundedToCents(r, x) == r % 10 = 0 /\ x - 5 < r /\ r <= x + 5

\* the PO target adjustPoTarget starts from: the stored one, else the seed
currentPo(pt, ex) == IF ex \in DOMAIN pt THEN pt[ex] ELSE seedPoForExercise(ex)

\* C6: feedback on a set moves the exercise's PO target by fixed transitions:
\* too_easy to max(0, current + 0.25), too_hard to max(0, current - 0.25),
\* both rounded to 2 decimal places; on_target leaves it at current, which is
\* the value the set's weight is then computed with.  current is the stored
\* target, or the exercise's seed when none is stored (first conjunct: the
\* page seeds every exercise on mount and on reset, so the handler itself
\* always finds a stored target).
C6_FeedbackTransitions ==
  /\ \A ex \in Exercises :
       /\ adjustPoTarget(EmptyMap, ex, feedbackDelta("too_easy"))[1]
            = seedPoForExercise(ex) + 250
       /\ adjustPoTarget(EmptyMap, ex, feedbackDelta("too_hard"))[1]
            = Max(0, seedPoForExercise(ex) - 250)
       /\ adjustPoTarget(EmptyMap, ex, feedbackDelta("on_target"))
            = << seedPoForExercise(ex), EmptyMap >>
  /\ [][ \A exIndex \in ActedRows, setIndex \in 1..MaxSetIndex, fb \in Feedbacks :
           HandleSetFeedback(exIndex, setIndex, fb) =>
             LET ex == rows[exIndex].exercise
                 current == currentPo(poTargets, ex)
                 s == rows[exIndex].sets[setIndex]
             IN CASE fb = "too_easy" ->
                       isRoundedToCents(poTargets'[ex], Max(0, current + 250))
                  [] fb = "too_hard" ->
                       isRoundedToCents(poTargets'[ex], Max(0, current - 250))
                  [] OTHER ->
                       /\ poTargets' = poTargets
                       /\ rows'[exIndex].sets[setIndex].weight =
                            poSuggestionFor(recs, userProfile, ex, s.set_number,
                                            rows[exIndex].setsCount, current) ]_vars

\* 0.333 was rated too easy: 0.583 is stored as 0.58
C6_Witness ==
  /\ poTargets["Incline Dumbbell Press"] = 580
  /\ rows[1].sets[1].feedback = "too_easy"

Abs(x) == IF x >= 0 THEN x ELSE -x

\* C7: for every PO target an exercise holds, too_easy followed by too_hard
\* brings the target back to within 0.01 of its value.
C7_EasyThenHardRestores ==
  \A ex \in DOMAIN poTargets :
    LET easy == adjustPoTarget(poTargets, ex, feedbackDelta("too_easy"))
        hard == adjustPoTarget(easy[2], ex, feedbackDelta("too_hard"))
    IN Abs(hard[1] - poTargets[ex]) <= 10

\* C8: every stored PO target is >= 0, in state and in storage.
C8_PoTargetsNonNegative ==
  /\ \A ex \in DOMAIN poTargets : poTargets[ex] >= 0
  /\ \A ex \in DOMAIN localStorage.poTargets : localStorage.poTargets[ex] >= 0

\* C9: right after feedback on a set of exercise E the stored target of E is
\* the adjusted one, the weight written to the set is the suggestion for the
\* stored target, and the suggestion of every set of E is computed with the
\* adjusted target.
C9_AdjustmentVisibleAtOnce ==
  [][ \A exIndex \in ActedRows, setIndex \in 1..MaxSetIndex, fb \in Feedbacks :
        HandleSetFeedback(exIndex, setIndex, fb) =>
          LET ex == rows[exIndex].exercise
              adjusted == adjustPoTarget(poTargets, ex, feedbackDelta(fb))[1]
              r == rows'[exIndex]
          IN /\ storedPoOrZero(poTargets', ex) = adjusted
             /\ localStorage'.poTargets[ex] = adjusted
             /\ r.sets[setIndex].weight =
                  computePoSuggestion(recs', userProfile', poTargets', ex,
                                      r.sets[setIndex].set_number, r.setsCount)
             /\ \A k \in DOMAIN r.sets :
                  computePoSuggestion(recs', userProfile', poTargets', ex,
                                      r.sets[k].set_number, r.setsCount)
                    = poSuggestionFor(recs', userProfile', ex,
                                      r.sets[k].set_number, r.setsCount,
                                      adjusted) ]_vars

\* the raised target (0.75 -> 1.0) shows in the weight written to the set:
\* 27.0 kg instead of the 26.5 kg suggested before
C9_Witness ==
  /\ poTargets["Incline Dumbbell Press"] = 1000
  /\ rows[1].sets[1].feedback = "too_easy"
  /\ rows[1].sets[1].weight = 27000

\* C10: the suggestion for set k of n is the multiple of 0.5 kg nearest to
\* base + (po / n) * max(0, 1 - (k - 1) * 0.15), with n = 0 taken as 1.
C10_SuggestionFormula ==
  probe.result # Blank =>
    LET n == IF probe.setsCount = 0 THEN 1 ELSE probe.setsCount
        decayed == 100 - (probe.setNumber - 1) * 15
        bias == IF decayed > 0 THEN decayed ELSE 0
        base == suggestionBase(recs, userProfile, probe.exercise)
        po == poTargets[probe.exercise]
    IN /\ probe.result % 500 = 0
       /\ Abs(probe.result * 100 * n - (base * 100 * n + po * bias))
            <= 250 * 100 * n

\* set 2 of 0 sets, target 2.0 kg/week, base 26.5 kg: 26.5 + 2.0 * 0.85
\* = 28.2, suggested as 28.0
C10_Witness ==
  /\ probe.exercise = "Incline Dumbbell Press"
  /\ probe.setNumber = 2
  /\ probe.setsCount = 0
  /\ poTargets["Incline Dumbbell Press"] = 2000
  /\ recs = EmptyMap
  /\ userProfile = NoProfile
  /\ probe.result = 28000

\* C11: with a PO target > 0, and exercise, base weight and set count fixed,
\* the suggestion for a set is never above the suggestion for an earlier set.
C11_SuggestionNonIncreasing ==
  (probe.result # Blank /\ poTargets[probe.exercise] > 0) =>
    \A j \in 1..probe.setNumber :
      computePoSuggestion(recs, userProfile, poTargets, probe.exercise,
                          j, probe.setsCount) >= probe.result

\* target 2.0 kg/week on one set, base 26.5 kg: set 3 is suggested 28.0 kg,
\* below the 28.5 kg of set 1
C11_Witness ==
  /\ probe.exercise = "Incline Dumbbell Press"
  /\ probe.setNumber = 3
  /\ probe.setsCount = 1
  /\ poTargets["Incline Dumbbell Press"] = 2000
  /\ recs = EmptyMap
  /\ userProfile = NoProfile
  /\ probe.result = 28000
  /\ computePoSuggestion(recs, userProfile, poTargets, probe.exercise, 1, 1)
       = 28500

\* C12: the suggested weight is never below 0, whatever PO target is
\* stored, whatever recommendation was received, for every set number and
\* set count.
C12_SuggestionNonNegative ==
  probe.result # Blank => probe.result >= 0

\* the base weight by strict priority: the AI weight if positive, else the
\* rule weight if positive, else the seeded initial weight
priorityBase(rc, up, ex) ==
  LET rec == recOf(rc, ex) IN
  IF rec.ai_weight > 0 THEN rec.ai_weight
  ELSE IF rec.recommended_weight > 0 THEN rec.recommended_weight
  ELSE computeInitialWeightForExercise(ex, profileWeightKg(up))

\* C13: the suggestion is computed from the base weight resolved by strict
\* priority (AI weight if present and positive, else rule weight if present
\* and positive, else the seeded initial weight); with an unusable AI weight
\* and a positive rule weight the base is the rule weight.
C13_BaseByPriority ==
  probe.result # Blank =>
    LET n == Max(1, probe.setsCount)
        bias == Max(0, 100 - (probe.setNumber - 1) * 15)
        base == priorityBase(recs, userProfile, probe.exercise)
    IN probe.result =
         roundToHalfOf(base * 100 * n + poTargets[probe.exercise] * bias,
                       100000 * n)

\* C14: for every exercise and body weight > 0 the initial working weight is
\* a multiple of 0.5 kg, is >= 2.5 kg, is not below the initial weight for
\* any smaller body weight, and is max(2.5, weight * factor * 1.08) rounded
\* to the nearest 0.5 kg, with factor 0.25 for an exercise the table lacks.
C14_InitialWeight ==
  probe.result # Blank =>
    LET bw == userProfile.current_weight_kg
        ex == probe.exercise
        scaled == bw * baselineFactor(ex) * 108
        raw == IF scaled > 25000 THEN scaled ELSE 25000
    IN /\ probe.result % 500 = 0
       /\ probe.result >= 2500
       /\ Abs(probe.result * 10 - raw) <= 2500
       /\ \A w \in 1..bw :
            computeInitialWeightForExercise(ex, w) <= probe.result
       /\ ex = "Cable Crunch" =>
            Abs(probe.result * 10 - Max(25000, bw * 25 * 108)) <= 2500

\* Lateral Raises at 20 kg body weight: 20 * 0.08 * 1.08 = 1.728 is raised
\* to the minimum 2.5
C14_Witness ==
  /\ probe.exercise = "Lateral Raises"
  /\ userProfile.current_weight_kg = 20
  /\ probe.result = 2500

\* C15: a page reload (which plans the default training day) leaves every
\* exercise's PO target at the value persisted before the reload: seeding
\* does not overwrite a non-empty persisted map.
C15_ReloadKeepsPersistedTargets ==
  [][ (Reload /\ DOMAIN localStorage.poTargets # {}) =>
        /\ poTargets' = localStorage.poTargets
        /\ localStorage'.poTargets = localStorage.poTargets ]_vars

\* round((10 * weight + 6.25 * height - 5 * age + (5 if male else -161))
\* * 1.55) for a resolved profile
maintenanceFormula(sex, age, weightKg, heightCm) ==
  LET s100 == IF sex = "male" THEN 500 ELSE -16100
      x == (1000 * weightKg + 625 * heightCm - 500 * age + s100) * 155
  IN CHOOSE r \in 0..6000 : 2 * 10000 * r - 10000 <= 2 * x
                            /\ 2 * x < 2 * 10000 * r + 10000

\* C16: the maintenance calories of the resolved profile are the closed
\* formula on its sex, age, weight and height; with no profile, or with
\* fields missing, that is the formula on the defaults male, 25, 70 kg,
\* 175 cm (2594 when all are defaults).
C16_MaintenanceMatchesFormula ==
  probe.call = "getUserProfile" =>
    LET p == probe.profile IN
    /\ p.maintenanceCalories =
         maintenanceFormula(p.sex, p.age, p.weightKg, p.heightCm)
    /\ (p.sex = "male" /\ p.age = 25 /\ p.weightKg = 70 /\ p.heightCm = 175)
         => p.maintenanceCalories = 2594

\* C17: the maintenance calories getIdealProfile reports are the closed
\* formula on the weight it reports as weightKg (the ideal weight, or 85
\* when none is stored).
C17_IdealMaintenanceUsesIdealWeight ==
  probe.call = "getIdealProfile" =>
    LET p == probe.profile IN
    p.maintenanceCalories =
      maintenanceFormula(p.sex, p.age, p.weightKg, p.heightCm)

\* the body in flight has an entry for set s of exercise ex
isSubmitted(body, ex, s) ==
  \E j \in DOMAIN body.sets :
    /\ body.sets[j].exercise = ex
    /\ body.sets[j].set_number = s.set_number
    /\ body.sets[j].weight = s.weight
    /\ body.sets[j].reps = s.reps

\* C18: when a session is finished, each set with both a weight and reps is
\* in the submitted body and each set that lacks a weight or reps is not;
\* nothing else is in it, and with at least one valid set the submission
\* goes ahead whatever the other sets look like.
C18_OnlyCompleteSetsSubmitted ==
  /\ [][ FinishSessionStart =>
           /\ inFlight'.sent
           /\ \A r \in DOMAIN rows : \A i \in DOMAIN rows[r].sets :
                LET s == rows[r].sets[i] IN
                (s.weight # Blank /\ s.reps # Blank)
                  <=> isSubmitted(inFlight', rows[r].exercise, s)
           /\ \A j \in DOMAIN inFlight'.sets :
                /\ inFlight'.sets[j].weight # Blank
                /\ inFlight'.sets[j].reps # Blank ]_vars
  /\ [] ( ( /\ sessionActive
            /\ ~submitting
            /\ \E r \in DOMAIN rows : \E i \in DOMAIN rows[r].sets :
                 rows[r].sets[i].weight # Blank /\ rows[r].sets[i].reps # Blank )
          => ENABLED FinishSessionStart )

\* set 1 of the first row has a weight but no reps and is left out of the
\* body, which carries the other sets
C18_Witness ==
  /\ inFlight.sent
  /\ rows[1].sets[1].weight # Blank
  /\ rows[1].sets[1].reps = Blank
  /\ Len(inFlight.sets) >= 1
  /\ ~ \E j \in DOMAIN inFlight.sets :
         /\ inFlight.sets[j].exercise = rows[1].exercise
         /\ inFlight.sets[j].set_number = 1

\* C19: the recommended weight submitted with a set is the suggestion that
\* was on screen when the user logged that set; a PO target that changed
\* afterwards does not alter it.
C19_RecordedIsShown ==
  [][ FinishSessionStart =>
        \A j \in DOMAIN inFlight'.sets :
          LET e == inFlight'.sets[j]
              key == << e.exercise, e.set_number >>
          IN key \in DOMAIN shown => e.rec_weight = shown[key] ]_vars

\* the heaviest weight the body in flight carries for exercise ex
heaviestSubmitted(body, ex) ==
  LET ws == { body.sets[j].weight :
                j \in { k \in DOMAIN body.sets : body.sets[k].exercise = ex } }
  IN CHOOSE w \in ws : \A v \in ws : w >= v

\* C20: the personal-records list holds, per exercise, the heaviest weight
\* logged, heaviest first, cut to its length limit.  So once a session is
\* logged, each logged exercise is listed with at least the heaviest weight
\* just logged for it, unless the list is full of records at least as heavy.
C20_PRsAreHeaviestLogged ==
  [][ FinishSessionOk(EmptyMap, FALSE) =>
        LET prs == topPRs(recs')
        IN /\ \A k \in 1..(Len(prs) - 1) : prs[k].weight >= prs[k + 1].weight
           /\ \A j \in DOMAIN inFlight.sets :
                LET ex == inFlight.sets[j].exercise
                    w == heaviestSubmitted(inFlight, ex)
                IN \/ \E k \in DOMAIN prs :
                        prs[k].exercise = ex /\ prs[k].weight >= w
                   \/ /\ Len(prs) = 4
                      /\ \A k \in DOMAIN prs : prs[k].weight >= w ]_vars

\* some exercise holds a PO target that the step changes, in state or storage
targetChanged ==
  \/ \E ex \in DOMAIN poTargets \cap DOMAIN poTargets' :
       poTargets'[ex] # poTargets[ex]
  \/ \E ex \in DOMAIN localStorage.poTargets \cap DOMAIN localStorage'.poTargets :
       localStorage'.poTargets[ex] # localStorage.poTargets[ex]

\* a recommendation response arrives, or a finished session's response does
recsArrive ==
  \/ \E data \in RecChoices : FetchRecommendations(1, data)
  \/ FinishSessionOk(EmptyMap, FALSE)
  \/ FinishSessionOk(SessionRecs, TRUE)

\* C21 as claimed: a recommendation response, or the response of a finished
\* session with its refreshed recommendations, leaves the PO-target map and
\* its persisted copy unchanged, and the only step that changes an existing
\* target is set feedback.
C21_OnlyFeedbackChangesTargets ==
  [][ /\ recsArrive => /\ poTargets' = poTargets
                       /\ localStorage'.poTargets = localStorage.poTargets
      /\ targetChanged =>
           \E fb \in Feedbacks : HandleSetFeedback(1, 1, fb) ]_vars

\* C21 amended: a recommendation response, or the response of a finished
\* session with its refreshed recommendations, leaves the PO-target map and
\* its persisted copy unchanged; an existing target is changed only by set
\* feedback (too_easy, too_hard), by the Edit prompt of a row (setPoTarget),
\* by resetPlannerState and by the seeding of a page load.
C21_RecsNeverChangeTargets ==
  [][ /\ recsArrive => /\ poTargets' = poTargets
                       /\ localStorage'.poTargets = localStorage.poTargets
      /\ targetChanged =>
           \/ \E fb \in { "too_easy", "too_hard" } : HandleSetFeedback(1, 1, fb)
           \/ \E kg \in EditInputs : SetPoTarget(1, kg)
           \/ ResetPlannerState
           \/ Reload ]_vars

\* refreshed recommendations have replaced recs after a logged session while
\* the target raised by feedback before it is still stored
C21_Witness ==
  /\ recs = SessionRecs
  /\ sessionFinished
  /\ poTargets["Incline Dumbbell Press"] = 750
  /\ localStorage.poTargets["Incline Dumbbell Press"] = 750

\* C22: in every reachable state each exercise row holds setsCount sets and
\* set i carries set number i (1..setsCount, no gap, no duplicate), and in
\* the sets finishSession would submit from that state no two entries share
\* exercise and set number.
C22_SetNumbersAreOneToCount ==
  /\ \A r \in DOMAIN rows :
       /\ Len(rows[r].sets) = rows[r].setsCount
       /\ \A i \in DOMAIN rows[r].sets : rows[r].sets[i].set_number = i
  /\ LET body == enrichedSets(rows, recs, userProfile, poTargets) IN
     \A j, k \in DOMAIN body :
       ( body[j].exercise = body[k].exercise
         /\ body[j].set_number = body[k].set_number ) => j = k

\* ten recommended sets were applied, the count was lowered to eight and
\* raised by + at the limit, set 1 was filled in and rated
C22_Witness ==
  /\ Len(rows) >= 1
  /\ rows[1].setsCount = 8
  /\ rows[1].sets[8].feedback = ""
  /\ rows[1].sets[1].feedback = "too_easy"
  /\ rows[1].sets[1].reps = 8
  /\ Len(enrichedSets(rows, recs, userProfile, poTargets)) >= 1

\* the step is a write of the PO target of exercise ex by one of the tabs
writesTarget(ex) ==
  \/ /\ Len(rows) >= 1
     /\ rows[1].exercise = ex
     /\ \/ \E kg \in TabInputs : SetPoTarget(1, kg)
        \/ \E fb \in { "too_easy", "too_hard" } : HandleSetFeedback(1, 1, fb)
  \/ \E kg \in TabInputs : OtherTabSetPoTarget(ex, kg)
  \/ \E fb \in { "too_easy", "too_hard" } : OtherTabSetFeedback(ex, fb)

\* C23: PO-target writes from two tabs are last-write-wins per exercise: a
\* write to exercise X leaves the persisted target of every other exercise
\* as it was, so when two tabs that loaded the same map each write a
\* different exercise, both writes are in the persisted map.
C23_WritesKeepOtherExercises ==
  [][ \A ex \in Exercises :
        writesTarget(ex) =>
          \A other \in DOMAIN localStorage.poTargets \ { ex } :
            /\ other \in DOMAIN localStorage'.poTargets
            /\ localStorage'.poTargets[other] = localStorage.poTargets[other]
    ]_vars

\* C24: every request the application sends to an /api route carries the
\* signed-in user's bearer token in its Authorization header, and every
\* request a proxy passes to the backend carries it too.
C24_EveryRequestCarriesToken ==
  /\ \A i \in DOMAIN api.sent : api.sent[i].authorization = api.token
  /\ \A i \in DOMAIN api.backend : api.backend[i].authorization = api.token

\* C25: on_target feedback leaves the exercise's PO target as it is, in
\* state and in storage, and still writes the PO targets to storage (the
\* "confirmed" write that records the set as evaluated).
C25_OnTargetStillWrites ==
  [][ HandleSetFeedback(1, 1, "on_target") =>
        /\ poTargets' = poTargets
        /\ localStorage'.poTargets = localStorage.poTargets
        /\ feedbackWrote' = "yes" ]_vars

\* C26: a day is added to the finished calendar only by the success path of
\* finishSession, after its POST; a finishSession call that finds no set with
\* weight and reps, that starts its POST, or whose POST fails leaves the
\* finished calendar (state and storage), sessionFinished, sessionActive and
\* the set rows as they are; and whenever submitting is true it becomes
\* false again.
C26_FinishedOnlyAfterPost ==
  /\ [][ /\ ~(finishedSessions' \subseteq finishedSessions) =>
              FinishSessionOk(EmptyMap, FALSE)
         /\ (FinishSessionEmpty \/ FinishSessionStart \/ FinishSessionFail) =>
              /\ finishedSessions' = finishedSessions
              /\ localStorage'.finishedSessions = localStorage.finishedSessions
              /\ sessionFinished' = sessionFinished
              /\ sessionActive' = sessionActive
              /\ rows' = rows
         /\ (FinishSessionEmpty \/ FinishSessionFail) => ~submitting' ]_vars
  /\ (submitting ~> ~submitting)

\* Monday's session is logged; on Tuesday a second one is started and Log
\* Session is pressed on its blank rows: the alert is raised, nothing is
\* submitted and Tuesday is not marked
C26_Witness ==
  /\ emptyAlert
  /\ today = 1
  /\ sessionActive
  /\ ~submitting
  /\ finishedSessions = {0}
  /\ localStorage.finishedSessions = {0}

\* C27: when resetPlannerState has run, every exercise of the catalogue has
\* its seed PO target (0.5 kg/week for the six compound lifts, 0.25 for the
\* others) in state and in storage, the finished and the skipped calendar
\* are empty in state and in storage, current and best streak are 0 (no
\* positive best is stored), and the lastCelebrated item is gone.
C27_ResetRestoresSeeds ==
  [][ ResetPlannerState =>
        /\ DOMAIN poTargets' = Exercises
        /\ \A ex \in Exercises :
             /\ poTargets'[ex] =
                  IF ex \in { "Incline Dumbbell Press", "Smith Machine Press",
                              "Romanian Deadlift", "Bent-over Row",
                              "Smith Machine Squat", "Overhead Press" }
                    THEN 500 ELSE 250
             /\ localStorage'.poTargets[ex] = poTargets'[ex]
        /\ DOMAIN localStorage'.poTargets = Exercises
        /\ finishedSessions' = {} /\ localStorage'.finishedSessions = {}
        /\ skippedSessions' = {} /\ localStorage'.skippedSessions = {}
        /\ streakCurrent' = 0 /\ streakBest' = 0
        /\ localStorage'.bestStreak \in { Null, 0 }
        /\ localStorage'.lastCelebrated = Null
        /\ celebrateMilestone' = Null ]_vars

\* The planner was reset after a three-day streak had been celebrated and a
\* too_hard rating had lowered a target: seeds, calendars and streaks are
\* back at their start values on the day of the reset.
C27_Witness ==
  /\ celebrated.total[3] = 1
  /\ celebrated.sinceReset[3] = 0
  /\ feedbackWrote = "yes"
  /\ today = 3
  /\ streakAsOf = 3
  /\ poTargets = baselinePoTargets
  /\ localStorage.poTargets = baselinePoTargets
  /\ finishedSessions = {}
  /\ localStorage.finishedSessions = {}
  /\ streakCurrent = 0
  /\ streakBest = 0
  /\ localStorage.lastCelebrated = Null

\* C28: no instrumentation event is lost: every event created so far has
\* been received by the backend, or its first POST is still awaited, or it
\* is in the persisted instrument queue; also when an enqueue or a second
\* flush runs while a flush awaits its sends.
C28_NoEventLost ==
  \A event \in 1..instrument.created :
    \/ event \in instrument.enqueues
    \/ event \in Range(instrument.received)
    \/ event \in Range(getInstrumentQueue(localStorage))

\* C29: a session is never active while the selected day is Rest:
\* startSession does nothing on a Rest day, and opening a day card leaves
\* sessionActive and sessionFinished false.
C29_NoSessionOnRest ==
  /\ [](sessionActive => selectedDay # "Rest")
  /\ [][ StartSession => selectedDay # "Rest" ]_vars
  /\ [][ (\E date \in getWeekDates(today) : OpenDay(date)) =>
            (~sessionActive' /\ ~sessionFinished') ]_vars

\* Log Session was pressed in an active session and, while the POST is
\* awaited, the card of Wednesday (a Rest day) was opened: the session is
\* no longer active
C29_Witness ==
  /\ selectedDay = "Rest"
  /\ selectedDateStr = 2
  /\ submitting
  /\ ~sessionActive
  /\ ~sessionFinished

\* C30: whenever the streak effect has run, the current streak is at most
\* the best streak, the one in state and the one in storage (a missing
\* bestStreak item reads as 0); sessions are finished, the page is reloaded
\* and the planner is reset in any order.
C30_CurrentAtMostBest ==
  /\ streakCurrent <= streakBest
  /\ streakCurrent <= bestStored

\* A three-day streak was celebrated, the planner was reset and a session
\* was logged after it: current and best streak are both 1
C30_Witness ==
  /\ celebrated.total[3] = 1
  /\ finishedSessions # {}
  /\ streakCurrent = 1
  /\ streakBest = 1
  /\ bestStored = 1

====
